---- MODULE Spec2Model ----
(***************************************************************************)
(* Model of the hotkey pattern language of use-hotkeys                     *)
(* (src/src/hotkeys-patterns.ts, documented copy in src/unnamed/part_000): *)
(* parsePattern, matchHotkey, matchAnyHotkey and the handler built by      *)
(* createHotkeyHandler together with the browser timer it arms.            *)
(*                                                                         *)
(* A JavaScript string is a sequence of one-character strings, so that     *)
(* split, trim, toLowerCase and length are computed as the code computes   *)
(* them.                                                                   *)
(***************************************************************************)
EXTENDS Integers, Sequences, FiniteSets, TLC

VARIABLES
  patterns,           \* createHotkeyHandler's first argument (HotkeyPattern)
  options,            \* createHotkeyHandler's third argument (MatchOptions)
  normalized,         \* closure constant: the pattern list
  sequenceTimeoutMs,  \* closure constant: the delay given to setTimeout
  seq,                \* closure constant: steps of the tracked sequence (<<>> if none)
  index,              \* closure variable `index` / `sequenceIndex`
  timer,              \* closure variable `timer` (NoTimer models null)
  timers,             \* the window's active timeouts: set of [id, due]
  nextTimerId,        \* the id window.setTimeout returns next
  now,                \* the clock, in milliseconds
  subscribed,         \* the host still has the handler attached as a listener
  calls,              \* the events the `handler` callback was invoked with, in order
  log,                \* history: what happened, with the state it happened in
  pin,                \* input of a pure call (parsePattern, matchHotkey, ...)
  pout,               \* what the pure call returned
  mounted,            \* a component calling the hook is mounted
  rendered,           \* the hook's arguments in the latest committed render
  callbackRef,        \* callbackRef.current
  indicator,          \* the hook's state `indicator`
  listeners,          \* the listeners attached to the event targets, in order
  cleanup,            \* what the cleanup returned by the last effect run removes
  pressed,            \* the keys whose keydown triggered the hotkey, not yet released
  renders,            \* how many renders were committed
  invoked             \* the callback invocations since mount, in order

hookVars == <<mounted, rendered, callbackRef, indicator, listeners, cleanup,
              pressed, renders, invoked>>

vars == <<patterns, options, normalized, sequenceTimeoutMs, seq, index, timer,
          timers, nextTimerId, now, subscribed, calls, log, pin, pout, hookVars>>

handlerVars == <<patterns, options, normalized, sequenceTimeoutMs, seq, index,
                 timer, timers, nextTimerId, now, subscribed, calls, log>>

pureVars == <<pin, pout>>

(***************************************************************************)
(* Strings                                                                 *)
(***************************************************************************)
UpperChars == <<"A","B","C","D","E","F","G","H","I","J","K","L","M",
                "N","O","P","Q","R","S","T","U","V","W","X","Y","Z">>

LowerChars == <<"a","b","c","d","e","f","g","h","i","j","k","l","m",
                "n","o","p","q","r","s","t","u","v","w","x","y","z">>

WhiteSpace == {" ", "\t", "\n"}

\* the value null of `key: string | null`: no string of characters equals it
Null == <<"null">>

charToLower(c) ==
  IF \E i \in DOMAIN UpperChars : UpperChars[i] = c
    THEN LowerChars[CHOOSE i \in DOMAIN UpperChars : UpperChars[i] = c]
    ELSE c

charToUpper(c) ==
  IF \E i \in DOMAIN LowerChars : LowerChars[i] = c
    THEN UpperChars[CHOOSE i \in DOMAIN LowerChars : LowerChars[i] = c]
    ELSE c

toLowerCase(s) == [i \in DOMAIN s |-> charToLower(s[i])]

toUpperCase(s) == [i \in DOMAIN s |-> charToUpper(s[i])]

RECURSIVE trimStart(_)
trimStart(s) ==
  IF s # <<>> /\ Head(s) \in WhiteSpace THEN trimStart(Tail(s)) ELSE s

RECURSIVE trimEnd(_)
trimEnd(s) ==
  IF s # <<>> /\ s[Len(s)] \in WhiteSpace
    THEN trimEnd(SubSeq(s, 1, Len(s) - 1))
    ELSE s

trim(s) == trimEnd(trimStart(s))

\* String.prototype.split(sep) for a one-character separator
RECURSIVE splitFrom(_, _, _, _, _)
splitFrom(s, sep, i, cur, acc) ==
  IF i > Len(s) THEN Append(acc, cur)
  ELSE IF s[i] = sep THEN splitFrom(s, sep, i + 1, <<>>, Append(acc, cur))
  ELSE splitFrom(s, sep, i + 1, Append(cur, s[i]), acc)

split(s, sep) == splitFrom(s, sep, 1, <<>>, <<>>)

\* .map((t) => t.trim()).filter(Boolean)
trimmedNonEmpty(parts) ==
  SelectSeq([i \in DOMAIN parts |-> trim(parts[i])], LAMBDA t : t # <<>>)

(***************************************************************************)
(* Tables                                                                  *)
(***************************************************************************)
specialKeyMap ==
  { << <<"e","s","c">>, <<"E","s","c","a","p","e">> >>,
    << <<"e","s","c","a","p","e">>, <<"E","s","c","a","p","e">> >>,
    << <<"e","n","t","e","r">>, <<"E","n","t","e","r">> >>,
    << <<"r","e","t","u","r","n">>, <<"E","n","t","e","r">> >>,
    << <<"t","a","b">>, <<"T","a","b">> >>,
    << <<"s","p","a","c","e">>, <<" ">> >>,
    << <<"s","p","a","c","e","b","a","r">>, <<" ">> >>,
    << <<"b","a","c","k","s","p","a","c","e">>,
       <<"B","a","c","k","s","p","a","c","e">> >>,
    << <<"d","e","l","e","t","e">>, <<"D","e","l","e","t","e">> >>,
    << <<"d","e","l">>, <<"D","e","l","e","t","e">> >>,
    << <<"a","r","r","o","w","u","p">>, <<"A","r","r","o","w","U","p">> >>,
    << <<"u","p">>, <<"A","r","r","o","w","U","p">> >>,
    << <<"a","r","r","o","w","d","o","w","n">>,
       <<"A","r","r","o","w","D","o","w","n">> >>,
    << <<"d","o","w","n">>, <<"A","r","r","o","w","D","o","w","n">> >>,
    << <<"a","r","r","o","w","l","e","f","t">>,
       <<"A","r","r","o","w","L","e","f","t">> >>,
    << <<"l","e","f","t">>, <<"A","r","r","o","w","L","e","f","t">> >>,
    << <<"a","r","r","o","w","r","i","g","h","t">>,
       <<"A","r","r","o","w","R","i","g","h","t">> >>,
    << <<"r","i","g","h","t">>, <<"A","r","r","o","w","R","i","g","h","t">> >>,
    << <<"p","a","g","e","u","p">>, <<"P","a","g","e","U","p">> >>,
    << <<"p","a","g","e","d","o","w","n">>,
       <<"P","a","g","e","D","o","w","n">> >>,
    << <<"h","o","m","e">>, <<"H","o","m","e">> >>,
    << <<"e","n","d">>, <<"E","n","d">> >> }

modifierAliases ==
  { << <<"c","o","n","t","r","o","l">>, "ctrl" >>,
    << <<"c","t","r","l">>, "ctrl" >>,
    << <<"c","o","m","m","a","n","d">>, "meta" >>,
    << <<"c","m","d">>, "meta" >>,
    << <<"m","e","t","a">>, "meta" >>,
    << <<"s","h","i","f","t">>, "shift" >>,
    << <<"o","p","t","i","o","n">>, "alt" >>,
    << <<"a","l","t">>, "alt" >>,
    << <<"m","o","d">>, "mod" >> }

\* the table has an entry of its own for k
hasKey(table, k) == \E e \in table : e[1] = k

\* table[k], for a key the table has
lookup(table, k) == (CHOOSE e \in table : e[1] = k)[2]

\* Both tables are object literals, so table[k] also finds what they inherit
\* from Object.prototype.  The lookups are made with a lowercased name, and
\* the inherited names without an uppercase letter are these two.
ObjectConstructor == <<"function Object">>

ObjectPrototype == <<"[object", "Object]">>

inheritedProperties ==
  { << <<"c","o","n","s","t","r","u","c","t","o","r">>, ObjectConstructor >>,
    << <<"_","_","p","r","o","t","o","_","_">>, ObjectPrototype >> }

Platforms == {"mac", "windows", "linux", "unknown"}

(***************************************************************************)
(* Parsing                                                                 *)
(***************************************************************************)
normalizeKeyName(raw, caseSensitive) ==
  LET k == trim(raw)
      lower == toLowerCase(k)
  IN  IF hasKey(specialKeyMap, lower) THEN lookup(specialKeyMap, lower)
      ELSE IF hasKey(inheritedProperties, lower)
        THEN lookup(inheritedProperties, lower)
      ELSE IF Len(lower) = 1 THEN (IF caseSensitive THEN k ELSE lower)
      ELSE IF caseSensitive THEN k
      ELSE IF Len(k) = 1 THEN lower
      ELSE <<charToUpper(k[1])>> \o SubSeq(k, 2, Len(k))

\* mutant of parseToken: "mod" is the Control key on every platform
parseToken_ModIsCtrl(acc, token, opts) ==
  LET lower == toLowerCase(token)
      alias == IF hasKey(modifierAliases, lower)
                 THEN lookup(modifierAliases, lower)
                 ELSE "undefined"
  IN  IF alias = "mod" /\ opts.treatModAsPlatformMeta
        THEN [acc EXCEPT !.ctrl = TRUE]
      ELSE IF alias = "ctrl" THEN [acc EXCEPT !.ctrl = TRUE]
      ELSE IF alias = "meta" THEN [acc EXCEPT !.meta = TRUE]
      ELSE IF alias = "shift" THEN [acc EXCEPT !.shift = TRUE]
      ELSE IF alias = "alt" THEN [acc EXCEPT !.alt = TRUE]
      ELSE [acc EXCEPT !.key = normalizeKeyName(token, opts.caseSensitive)]

\* mutant of parseToken: a key token is dropped when a key is already set
parseToken_FirstKeyWins(acc, token, opts) ==
  LET lower == toLowerCase(token)
      alias == IF hasKey(modifierAliases, lower)
                 THEN lookup(modifierAliases, lower)
                 ELSE "undefined"
  IN  IF alias = "mod" /\ opts.treatModAsPlatformMeta
        THEN (IF opts.platform = "mac"
                THEN [acc EXCEPT !.meta = TRUE]
                ELSE [acc EXCEPT !.ctrl = TRUE])
      ELSE IF alias = "ctrl" THEN [acc EXCEPT !.ctrl = TRUE]
      ELSE IF alias = "meta" THEN [acc EXCEPT !.meta = TRUE]
      ELSE IF alias = "shift" THEN [acc EXCEPT !.shift = TRUE]
      ELSE IF alias = "alt" THEN [acc EXCEPT !.alt = TRUE]
      ELSE IF acc.key # Null THEN acc
      ELSE [acc EXCEPT !.key = normalizeKeyName(token, opts.caseSensitive)]

\* one turn of parseSingle's loop over the tokens
parseToken(acc, token, opts) ==
  LET lower == toLowerCase(token)
      \* an inherited property is the name of no alias, like undefined
      alias == IF hasKey(modifierAliases, lower)
                 THEN lookup(modifierAliases, lower)
                 ELSE "undefined"
  IN  IF alias = "mod" /\ opts.treatModAsPlatformMeta
        THEN (IF opts.platform = "mac"
                THEN [acc EXCEPT !.meta = TRUE]
                ELSE [acc EXCEPT !.ctrl = TRUE])
      ELSE IF alias = "ctrl" THEN [acc EXCEPT !.ctrl = TRUE]
      ELSE IF alias = "meta" THEN [acc EXCEPT !.meta = TRUE]
      ELSE IF alias = "shift" THEN [acc EXCEPT !.shift = TRUE]
      ELSE IF alias = "alt" THEN [acc EXCEPT !.alt = TRUE]
      ELSE [acc EXCEPT !.key = normalizeKeyName(token, opts.caseSensitive)]

RECURSIVE parseTokens(_, _, _)
parseTokens(acc, tokens, opts) ==
  IF tokens = <<>> THEN acc
  ELSE parseTokens(parseToken(acc, Head(tokens), opts), Tail(tokens), opts)

parseSingle(pattern, opts) ==
  LET tokens == trimmedNonEmpty(split(pattern, "+"))
  IN  parseTokens([key |-> Null, ctrl |-> FALSE, meta |-> FALSE,
                   shift |-> FALSE, alt |-> FALSE], tokens, opts)

\* mutant of parsePattern: a pattern of two parts is still parsed as one step
parsePattern_TwoPartsSingle(pattern, opts) ==
  LET sequenceParts == trimmedNonEmpty(split(pattern, " "))
  IN  IF Len(sequenceParts) <= 2
        THEN LET single == parseSingle(pattern, opts)
             IN  [key |-> single.key, ctrl |-> single.ctrl, meta |-> single.meta,
                  shift |-> single.shift, alt |-> single.alt,
                  isSequence |-> FALSE, sequence |-> <<single>>]
        ELSE [key |-> Null, ctrl |-> FALSE, meta |-> FALSE, shift |-> FALSE,
              alt |-> FALSE, isSequence |-> TRUE,
              sequence |-> [i \in DOMAIN sequenceParts |->
                              parseSingle(sequenceParts[i], opts)]]

parsePattern(pattern, opts) ==
  LET sequenceParts == trimmedNonEmpty(split(pattern, " "))
  IN  IF Len(sequenceParts) <= 1
        THEN LET single == parseSingle(pattern, opts)
             IN  [key |-> single.key, ctrl |-> single.ctrl, meta |-> single.meta,
                  shift |-> single.shift, alt |-> single.alt,
                  isSequence |-> FALSE, sequence |-> <<single>>]
        ELSE [key |-> Null, ctrl |-> FALSE, meta |-> FALSE, shift |-> FALSE,
              alt |-> FALSE, isSequence |-> TRUE,
              sequence |-> [i \in DOMAIN sequenceParts |->
                              parseSingle(sequenceParts[i], opts)]]

(***************************************************************************)
(* Matching                                                                *)
(***************************************************************************)
\* mutant of eventKeyComparable: the event key is lowercased in every case
eventKeyComparable_AlwaysLower(event, caseSensitive) ==
  LET k == event.key
  IN  IF Len(k) = 1 THEN toLowerCase(k) ELSE k

eventKeyComparable(event, caseSensitive) ==
  LET k == event.key
  IN  IF Len(k) = 1 THEN (IF caseSensitive THEN k ELSE toLowerCase(k)) ELSE k

\* the right-hand side of the key comparison: the parsed key made comparable
expectedKey(key, caseSensitive) ==
  IF Len(key) = 1 THEN (IF caseSensitive THEN key ELSE toLowerCase(key)) ELSE key

\* mutant of matchHotkey: the altKey comparison is missing
matchHotkey_NoAltCheck(event, pattern, opts) ==
  LET parsed == parsePattern(pattern, opts)
  IN  IF parsed.isSequence THEN FALSE
      ELSE IF parsed.ctrl # event.ctrlKey THEN FALSE
      ELSE IF parsed.meta # event.metaKey THEN FALSE
      ELSE IF parsed.shift # event.shiftKey THEN FALSE
      ELSE IF parsed.key = Null THEN TRUE
      ELSE eventKeyComparable(event, opts.caseSensitive)
             = expectedKey(parsed.key, opts.caseSensitive)

\* mutant of matchHotkey: a pattern without a key matches nothing
matchHotkey_NullKeyNoMatch(event, pattern, opts) ==
  LET parsed == parsePattern(pattern, opts)
  IN  IF parsed.isSequence THEN FALSE
      ELSE IF parsed.ctrl # event.ctrlKey THEN FALSE
      ELSE IF parsed.meta # event.metaKey THEN FALSE
      ELSE IF parsed.shift # event.shiftKey THEN FALSE
      ELSE IF parsed.alt # event.altKey THEN FALSE
      ELSE IF parsed.key = Null THEN FALSE
      ELSE eventKeyComparable(event, opts.caseSensitive)
             = expectedKey(parsed.key, opts.caseSensitive)

matchHotkey(event, pattern, opts) ==
  LET parsed == parsePattern(pattern, opts)
  IN  IF parsed.isSequence THEN FALSE
      ELSE IF parsed.ctrl # event.ctrlKey THEN FALSE
      ELSE IF parsed.meta # event.metaKey THEN FALSE
      ELSE IF parsed.shift # event.shiftKey THEN FALSE
      ELSE IF parsed.alt # event.altKey THEN FALSE
      ELSE IF parsed.key = Null THEN TRUE
      ELSE eventKeyComparable(event, opts.caseSensitive)
             = expectedKey(parsed.key, opts.caseSensitive)

\* the call ends in a TypeError instead of returning: the key comparison is
\* reached with the inherited function as key, whose length is 1 and which has
\* no toLowerCase
matchHotkeyThrows(event, pattern, opts) ==
  LET parsed == parsePattern(pattern, opts)
  IN  /\ ~parsed.isSequence
      /\ parsed.ctrl = event.ctrlKey
      /\ parsed.meta = event.metaKey
      /\ parsed.shift = event.shiftKey
      /\ parsed.alt = event.altKey
      /\ parsed.key = ObjectConstructor
      /\ ~opts.caseSensitive

\* mutant of matchAnyHotkey: only the first pattern of the list is tried
matchAnyHotkey_FirstOnly(event, list, opts) ==
  IF list = <<>> THEN FALSE ELSE matchHotkey(event, Head(list), opts)

\* patterns is the list Array.isArray(patterns) ? patterns : [patterns]
RECURSIVE matchAnyHotkey(_, _, _)
matchAnyHotkey(event, list, opts) ==
  IF list = <<>> THEN FALSE
  ELSE IF matchHotkey(event, Head(list), opts) THEN TRUE
  ELSE matchAnyHotkey(event, Tail(list), opts)

\* the loop reaches a pattern on which matchHotkey throws
RECURSIVE matchAnyHotkeyThrows(_, _, _)
matchAnyHotkeyThrows(event, list, opts) ==
  IF list = <<>> THEN FALSE
  ELSE IF matchHotkeyThrows(event, Head(list), opts) THEN TRUE
  ELSE IF matchHotkey(event, Head(list), opts) THEN FALSE
  ELSE matchAnyHotkeyThrows(event, Tail(list), opts)

(***************************************************************************)
(* createHotkeyHandler: construction                                       *)
(*                                                                         *)
(* A HotkeyPattern value is [isObject, isArray, value, hasTimeout,         *)
(* timeoutMs]: isObject tells the {patterns, sequenceTimeoutMs} form from  *)
(* the plain string / array forms, isArray whether the pattern list is an  *)
(* array, hasTimeout whether sequenceTimeoutMs is given.                   *)
(***************************************************************************)
DefaultSequenceTimeoutMs == 600

\* null in `let timer: number | null = null`; setTimeout returns ids > 0
NoTimer == 0

sequenceTimeoutMsOf(p) ==
  IF ~p.isObject THEN 0
  ELSE IF p.hasTimeout THEN p.timeoutMs
  ELSE DefaultSequenceTimeoutMs

normalizedOf(p) == IF p.isArray THEN p.value ELSE <<p.value>>

\* normalized.some((p) => parsePattern(p, options).isSequence)
someSequence(list, opts) ==
  \E i \in DOMAIN list : parsePattern(list[i], opts).isSequence

\* mutant of firstSeq: the last sequence pattern of the list instead of the first
RECURSIVE firstSeq_Last(_, _)
firstSeq_Last(list, opts) ==
  IF parsePattern(list[Len(list)], opts).isSequence THEN list[Len(list)]
  ELSE firstSeq_Last(SubSeq(list, 1, Len(list) - 1), opts)

\* normalized.find((p) => parsePattern(p, options).isSequence)
RECURSIVE firstSeq(_, _)
firstSeq(list, opts) ==
  IF parsePattern(Head(list), opts).isSequence THEN Head(list)
  ELSE firstSeq(Tail(list), opts)

seqOf(list, opts) ==
  IF someSequence(list, opts)
    THEN parsePattern(firstSeq(list, opts), opts).sequence
    ELSE <<>>

(***************************************************************************)
(* The window's timers                                                     *)
(***************************************************************************)
clearTimeout(ts, id) == {t \in ts : t.id # id}

setTimeout(ts, id, delay, at) == ts \cup {[id |-> id, due |-> at + delay]}

(***************************************************************************)
(* The returned handler                                                    *)
(***************************************************************************)
\* mutant of stepMatches: the event key is lowercased whatever caseSensitive is
stepMatches_LowercasesEvent(current, event, opts) ==
  LET modMatch == /\ current.ctrl = event.ctrlKey
                  /\ current.meta = event.metaKey
                  /\ current.shift = event.shiftKey
                  /\ current.alt = event.altKey
      keyMatch == \/ current.key = Null
                  \/ eventKeyComparable(event, FALSE)
                       = (IF Len(current.key) = 1
                            THEN (IF opts.caseSensitive
                                    THEN current.key
                                    ELSE toLowerCase(current.key))
                            ELSE current.key)
  IN  modMatch /\ keyMatch

\* modMatch && keyMatch of the sequence handler
stepMatches(current, event, opts) ==
  LET modMatch == /\ current.ctrl = event.ctrlKey
                  /\ current.meta = event.metaKey
                  /\ current.shift = event.shiftKey
                  /\ current.alt = event.altKey
      keyMatch == \/ current.key = Null
                  \/ eventKeyComparable(event, opts.caseSensitive)
                       = (IF Len(current.key) = 1
                            THEN (IF opts.caseSensitive
                                    THEN current.key
                                    ELSE toLowerCase(current.key))
                            ELSE current.key)
  IN  modMatch /\ keyMatch

\* mutant of Complete: the armed timeout is left alone
Complete_LeavesTimer(event) ==
  /\ index' = 0
  /\ calls' = Append(calls, event)
  /\ UNCHANGED <<timers, timer, nextTimerId>>

\* the last step matched: index === seq.length
Complete(event) ==
  /\ index' = 0
  /\ IF timer # NoTimer
       THEN timers' = clearTimeout(timers, timer) /\ timer' = NoTimer
       ELSE UNCHANGED <<timers, timer>>
  /\ calls' = Append(calls, event)
  /\ UNCHANGED nextTimerId

\* mutant of Advance: a pending deadline is kept instead of being re-armed
Advance_KeepsDeadline ==
  /\ index' = index + 1
  /\ IF timer # NoTimer
       THEN UNCHANGED <<timers, timer, nextTimerId>>
       ELSE /\ timers' = setTimeout(timers, nextTimerId, sequenceTimeoutMs, now)
            /\ timer' = nextTimerId
            /\ nextTimerId' = nextTimerId + 1
  /\ UNCHANGED calls

\* mutant of Advance: the new timeout is set without clearing the old one
Advance_NoClear ==
  /\ index' = index + 1
  /\ timers' = setTimeout(timers, nextTimerId, sequenceTimeoutMs, now)
  /\ timer' = nextTimerId
  /\ nextTimerId' = nextTimerId + 1
  /\ UNCHANGED calls

\* a step before the last matched: re-arm the deadline
Advance ==
  /\ index' = index + 1
  /\ timers' = setTimeout(IF timer # NoTimer
                            THEN clearTimeout(timers, timer)
                            ELSE timers,
                          nextTimerId, sequenceTimeoutMs, now)
  /\ timer' = nextTimerId
  /\ nextTimerId' = nextTimerId + 1
  /\ UNCHANGED calls

\* mutant of Reset: progress is reset but the timeout is not cancelled
Reset_KeepsTimer ==
  /\ index' = 0
  /\ UNCHANGED <<timers, timer, calls, nextTimerId>>

\* mutant of Reset: the timeout is cancelled but progress is kept
Reset_KeepsIndex ==
  /\ index' = index
  /\ IF timer # NoTimer
       THEN timers' = clearTimeout(timers, timer) /\ timer' = NoTimer
       ELSE UNCHANGED <<timers, timer>>
  /\ UNCHANGED <<calls, nextTimerId>>

\* the step did not match
Reset ==
  /\ index' = 0
  /\ IF timer # NoTimer
       THEN timers' = clearTimeout(timers, timer) /\ timer' = NoTimer
       ELSE UNCHANGED <<timers, timer>>
  /\ UNCHANGED <<calls, nextTimerId>>

\* mutant of Simple: the callback is invoked once for each pattern that matches
Simple_OncePerPattern(event) ==
  /\ calls' = calls \o [i \in 1..Cardinality({j \in DOMAIN normalized :
                                  matchHotkey(event, normalized[j], options)})
                          |-> event]
  /\ UNCHANGED <<index, timer, timers, nextTimerId>>

\* the handler returned when no pattern of the list is a sequence
Simple(event) ==
  /\ calls' = IF matchAnyHotkey(event, normalized, options)
                THEN Append(calls, event)
                ELSE calls
  /\ UNCHANGED <<index, timer, timers, nextTimerId>>

\* mutant of Handler: an event that fails the current step is ignored
Handler_IgnoresMismatch(event) ==
  IF seq # <<>>
    THEN IF stepMatches(seq[index + 1], event, options)
           THEN IF index + 1 = Len(seq) THEN Complete(event) ELSE Advance
           ELSE UNCHANGED <<index, timer, timers, nextTimerId, calls>>
    ELSE Simple(event)

Handler(event) ==
  IF seq # <<>>
    THEN IF stepMatches(seq[index + 1], event, options)
           THEN IF index + 1 = Len(seq) THEN Complete(event) ELSE Advance
           ELSE Reset
    ELSE Simple(event)

\* mutant of TimerCallback: the handle is dropped but progress is kept
TimerCallback_KeepsIndex ==
  /\ index' = index
  /\ timer' = NoTimer

\* the callback given to setTimeout
TimerCallback ==
  /\ index' = 0
  /\ timer' = NoTimer

(***************************************************************************)
(* formatPattern                                                           *)
(*                                                                         *)
(* A FormatOptions value is [platform, hasUseSymbols, useSymbols,          *)
(* hasSeparator, separator]: platform is options?.platform ??              *)
(* detectPlatform(), the has- fields tell whether the option is given.     *)
(* The glyphs are single characters, named by their code points.           *)
(***************************************************************************)
GlyphControl == "U+2303"
GlyphCommand == "U+2318"
GlyphShift == "U+21E7"
GlyphOption == "U+2325"
GlyphSpace == "U+2423"

useSymbolsOf(fmt) ==
  IF fmt.hasUseSymbols THEN fmt.useSymbols ELSE fmt.platform = "mac"

\* mutant of separatorOf: the default separator is " + " with glyphs too
separatorOf_AlwaysPlus(fmt) ==
  IF fmt.hasSeparator THEN fmt.separator ELSE <<" ","+"," ">>

separatorOf(fmt) ==
  IF fmt.hasSeparator THEN fmt.separator
  ELSE IF useSymbolsOf(fmt) THEN <<>> ELSE <<" ","+"," ">>

ctrlLabel(fmt) ==
  IF useSymbolsOf(fmt) THEN <<GlyphControl>> ELSE <<"C","t","r","l">>

metaLabel(fmt) ==
  IF useSymbolsOf(fmt) THEN <<GlyphCommand>>
  ELSE IF fmt.platform = "mac" THEN <<"C","o","m","m","a","n","d">>
  ELSE <<"M","e","t","a">>

shiftLabel(fmt) ==
  IF useSymbolsOf(fmt) THEN <<GlyphShift>> ELSE <<"S","h","i","f","t">>

altLabel(fmt) ==
  IF useSymbolsOf(fmt) THEN <<GlyphOption>>
  ELSE IF fmt.platform = "mac" THEN <<"O","p","t","i","o","n">>
  ELSE <<"A","l","t">>

toKeyLabel(k, fmt) ==
  IF k = Null \/ k = <<>> THEN <<>>
  ELSE IF k = <<" ">>
    THEN (IF useSymbolsOf(fmt) THEN <<GlyphSpace>> ELSE <<"S","p","a","c","e">>)
  ELSE IF Len(k) = 1 THEN toUpperCase(k) ELSE k

\* Array.prototype.join
RECURSIVE join(_, _)
join(tokens, separator) ==
  IF tokens = <<>> THEN <<>>
  ELSE IF Len(tokens) = 1 THEN tokens[1]
  ELSE tokens[1] \o separator \o join(Tail(tokens), separator)

\* mutant of stepTokens: the Shift label is pushed before the Control label
stepTokens_ShiftFirst(p, fmt) ==
  (IF p.shift THEN <<shiftLabel(fmt)>> ELSE <<>>)
    \o (IF p.ctrl THEN <<ctrlLabel(fmt)>> ELSE <<>>)
    \o (IF p.meta THEN <<metaLabel(fmt)>> ELSE <<>>)
    \o (IF p.alt THEN <<altLabel(fmt)>> ELSE <<>>)
    \o (IF p.key # Null /\ p.key # <<>> THEN <<toKeyLabel(p.key, fmt)>> ELSE <<>>)

\* the labels pushed for one step, in the order of the pushes
stepTokens(p, fmt) ==
  (IF p.ctrl THEN <<ctrlLabel(fmt)>> ELSE <<>>)
    \o (IF p.meta THEN <<metaLabel(fmt)>> ELSE <<>>)
    \o (IF p.shift THEN <<shiftLabel(fmt)>> ELSE <<>>)
    \o (IF p.alt THEN <<altLabel(fmt)>> ELSE <<>>)
    \o (IF p.key # Null /\ p.key # <<>> THEN <<toKeyLabel(p.key, fmt)>> ELSE <<>>)

\* parsePattern(pattern, { platform }): the other options take their defaults
formatParseOptions(fmt) ==
  [platform |-> fmt.platform, caseSensitive |-> FALSE,
   treatModAsPlatformMeta |-> TRUE]

\* mutant of formatPattern: the steps are joined with the separator option
formatPattern_StepsJoinedBySeparator(pattern, fmt) ==
  LET parsed == parsePattern(pattern, formatParseOptions(fmt))
  IN  IF ~parsed.isSequence
        THEN join(stepTokens(parsed, fmt), separatorOf(fmt))
        ELSE join([i \in DOMAIN parsed.sequence |->
                     join(stepTokens(parsed.sequence[i], fmt), separatorOf(fmt))],
                  separatorOf(fmt))

formatPattern(pattern, fmt) ==
  LET parsed == parsePattern(pattern, formatParseOptions(fmt))
  IN  IF ~parsed.isSequence
        THEN join(stepTokens(parsed, fmt), separatorOf(fmt))
        ELSE join([i \in DOMAIN parsed.sequence |->
                     join(stepTokens(parsed.sequence[i], fmt), separatorOf(fmt))],
                  IF useSymbolsOf(fmt) THEN <<" ">>
                  ELSE <<" ","t","h","e","n"," ">>)

\* toKeyLabel throws on the inherited function: length 1, no toUpperCase
formatPatternThrows(pattern, fmt) ==
  LET parsed == parsePattern(pattern, formatParseOptions(fmt))
  IN  \E i \in DOMAIN parsed.sequence : parsed.sequence[i].key = ObjectConstructor

(***************************************************************************)
(* Inputs                                                                  *)
(***************************************************************************)
MaxLog == 4

KeyEvent(k, c, m, s, a) ==
  [key |-> k, ctrlKey |-> c, metaKey |-> m, shiftKey |-> s, altKey |-> a]

NoEvent == KeyEvent(<<>>, FALSE, FALSE, FALSE, FALSE)

EvG == KeyEvent(<<"g">>, FALSE, FALSE, FALSE, FALSE)
EvX == KeyEvent(<<"x">>, FALSE, FALSE, FALSE, FALSE)
EvCtrlK == KeyEvent(<<"k">>, TRUE, FALSE, FALSE, FALSE)
\* "G" typed with caps lock on: no modifier held
EvCapsG == KeyEvent(<<"G">>, FALSE, FALSE, FALSE, FALSE)

Events == {EvG, EvX, EvCtrlK, EvCapsG}

PatGG == <<"g"," ","g">>
PatXX == <<"x"," ","x">>
PatGXG == <<"g"," ","x"," ","g">>
PatX == <<"x">>
PatXUpper == <<"X">>
PatControlK == <<"C","o","n","t","r","o","l","+","k">>
PatGCtrlK == <<"g"," ","C","o","n","t","r","o","l","+","k">>

ShortTimeoutMs == 3

HotkeyPatterns ==
  { [isObject |-> TRUE, isArray |-> FALSE, value |-> PatGG,
     hasTimeout |-> TRUE, timeoutMs |-> ShortTimeoutMs],
    [isObject |-> FALSE, isArray |-> FALSE, value |-> PatGG,
     hasTimeout |-> FALSE, timeoutMs |-> 0],
    [isObject |-> TRUE, isArray |-> TRUE, value |-> <<PatControlK, PatGG, PatXX>>,
     hasTimeout |-> FALSE, timeoutMs |-> 0],
    [isObject |-> TRUE, isArray |-> FALSE, value |-> PatGXG,
     hasTimeout |-> TRUE, timeoutMs |-> ShortTimeoutMs],
    [isObject |-> TRUE, isArray |-> FALSE, value |-> PatGCtrlK,
     hasTimeout |-> TRUE, timeoutMs |-> ShortTimeoutMs],
    [isObject |-> FALSE, isArray |-> TRUE,
     value |-> <<PatControlK, PatX, PatXUpper>>,
     hasTimeout |-> FALSE, timeoutMs |-> 0] }

HandlerOptions ==
  [platform : {"linux"}, caseSensitive : BOOLEAN,
   treatModAsPlatformMeta : {TRUE}]

\* the calls of createHotkeyHandler explored: every pattern argument with the
\* default options, and the timed "g g" also with caseSensitive
Registrations ==
  { r \in [patterns : HotkeyPatterns, options : HandlerOptions] :
      r.options.caseSensitive =>
        (r.patterns.isObject /\ ~r.patterns.isArray /\ r.patterns.value = PatGG) }

(***************************************************************************)
(* The handler under events, time and teardown                             *)
(***************************************************************************)
Entry(kind, event) ==
  [kind |-> kind, ev |-> event, t |-> now, idx |-> index, n |-> Len(calls),
   tm |-> timer, armed |-> timers]

lastTime == IF log = <<>> THEN 0 ELSE log[Len(log)].t

\* how long the clock may advance in one step: never past a due timeout
Delays ==
  IF timers = {} THEN {1}
  ELSE LET r == (CHOOSE t \in timers : \A u \in timers : t.due <= u.due).due - now
       IN  {d \in {1, r - 1, r} : d >= 1 /\ d <= r}

(***************************************************************************)
(* The React hook useHotkeys / useHotkeysWithState                         *)
(* (src/unnamed/part_001, internalUseHotkeys).  A render and the effects   *)
(* it schedules are committed in one step.  An event target is named by a  *)
(* string, a key by the string event.key holds.                            *)
(***************************************************************************)
NullTarget == "null"

\* typeof window !== "undefined" ? window : null, in a browser
defaultTarget == "window"

EventTargets == {"window", "element"}

isListenerCapable(value) == value # NullTarget /\ value \in EventTargets

NoKey == "null"

NoEventType == "null"

\* lastTriggeredAt: null
NeverTriggered == -1

\* the initial value given to React.useState
initialIndicator ==
  [isActive |-> FALSE, lastKey |-> NoKey, lastEventType |-> NoEventType,
   pressCount |-> 0, lastTriggeredAt |-> NeverTriggered,
   isCombinationActive |-> FALSE]

\* keys is [isArray, value]: a string, or an array of strings
\* new Set((Array.isArray(keys) ? keys : [keys]).map(String))
normalizedKeysOf(keys) ==
  IF keys.isArray
    THEN {keys.value[i] : i \in DOMAIN keys.value}
    ELSE {keys.value}

\* useMemo(..., [keys]): the set is built again when keys is another value;
\* an array written in the render is another value every time (fresh)
memoRecomputed(previous, keys, fresh) ==
  IF previous.isArray # keys.isArray THEN TRUE
  ELSE IF keys.isArray THEN fresh \/ previous.value # keys.value
  ELSE previous.value # keys.value

\* what the callbacks created in a render close over
Scope(r) ==
  [normalizedKeys |-> normalizedKeysOf(r.keys),
   requireControl |-> r.requireControl, requireMeta |-> r.requireMeta,
   requireShift |-> r.requireShift, requireAlt |-> r.requireAlt,
   returnState |-> r.returnState]

doesEventMatch_IgnoresRequireShift(c, keyboardEvent) ==
  IF keyboardEvent.key \notin c.normalizedKeys THEN FALSE
  ELSE IF c.requireControl /\ ~keyboardEvent.ctrlKey THEN FALSE
  ELSE IF c.requireMeta /\ ~keyboardEvent.metaKey THEN FALSE
  ELSE IF c.requireAlt /\ ~keyboardEvent.altKey THEN FALSE
  ELSE TRUE

doesEventMatch(c, keyboardEvent) ==
  IF keyboardEvent.key \notin c.normalizedKeys THEN FALSE
  ELSE IF c.requireControl /\ ~keyboardEvent.ctrlKey THEN FALSE
  ELSE IF c.requireMeta /\ ~keyboardEvent.metaKey THEN FALSE
  ELSE IF c.requireShift /\ ~keyboardEvent.shiftKey THEN FALSE
  ELSE IF c.requireAlt /\ ~keyboardEvent.altKey THEN FALSE
  ELSE TRUE

updateStateOnTrigger_CountsTwice(c, previousState, keyboardEvent, dateNow) ==
  [isActive |-> IF keyboardEvent.type = "keydown" THEN TRUE
                ELSE previousState.isActive,
   lastKey |-> keyboardEvent.key,
   lastEventType |-> keyboardEvent.type,
   pressCount |-> previousState.pressCount + 2,
   lastTriggeredAt |-> dateNow,
   isCombinationActive |->
     /\ (keyboardEvent.ctrlKey \/ keyboardEvent.metaKey
           \/ keyboardEvent.shiftKey \/ keyboardEvent.altKey)
     /\ (~c.requireControl \/ keyboardEvent.ctrlKey)
     /\ (~c.requireMeta \/ keyboardEvent.metaKey)
     /\ (~c.requireShift \/ keyboardEvent.shiftKey)
     /\ (~c.requireAlt \/ keyboardEvent.altKey)]

\* the updater given to setIndicator, applied to the previous state
updateStateOnTrigger(c, previousState, keyboardEvent, dateNow) ==
  [isActive |-> IF keyboardEvent.type = "keydown" THEN TRUE
                ELSE previousState.isActive,
   lastKey |-> keyboardEvent.key,
   lastEventType |-> keyboardEvent.type,
   pressCount |-> previousState.pressCount + 1,
   lastTriggeredAt |-> dateNow,
   isCombinationActive |->
     /\ (keyboardEvent.ctrlKey \/ keyboardEvent.metaKey
           \/ keyboardEvent.shiftKey \/ keyboardEvent.altKey)
     /\ (~c.requireControl \/ keyboardEvent.ctrlKey)
     /\ (~c.requireMeta \/ keyboardEvent.metaKey)
     /\ (~c.requireShift \/ keyboardEvent.shiftKey)
     /\ (~c.requireAlt \/ keyboardEvent.altKey)]

\* the updater of handleKeyUpDeactivation
deactivated(previousState, keyboardEvent) ==
  [previousState EXCEPT !.isActive = FALSE,
                        !.lastEventType = "keyup",
                        !.lastKey = keyboardEvent.key,
                        !.isCombinationActive = FALSE]

\* React applies a state update only while the component is mounted.
\* st is [indicator, invoked]: the state, and the calls made so far
setIndicator(st, isMounted, next) ==
  IF isMounted THEN [st EXCEPT !.indicator = next] ELSE st

callbackRefAfter_KeepsFirst(ref, callback) == ref

\* the effect `callbackRef.current = callback`
callbackRefAfter(ref, callback) == callback

\* a call of the callback: which function, with which event, when
Invocation(callback, keyboardEvent, dateNow) ==
  [callback |-> callback, event |-> keyboardEvent, at |-> dateNow]

handlePrimaryEvent(c, st, keyboardEvent, ref, isMounted, dateNow) ==
  IF ~doesEventMatch(c, keyboardEvent) THEN st
  ELSE LET updated ==
             IF c.returnState
               THEN setIndicator(st, isMounted,
                      updateStateOnTrigger(c, st.indicator, keyboardEvent,
                                           dateNow))
               ELSE st
       IN  [updated EXCEPT
              !.invoked = Append(@, Invocation(ref, keyboardEvent, dateNow))]

handleKeyUpDeactivation(c, st, keyboardEvent, isMounted) ==
  IF keyboardEvent.key \notin c.normalizedKeys THEN st
  ELSE setIndicator(st, isMounted, deactivated(st.indicator, keyboardEvent))

\* an entry of a target's listener list
Listener(target, type, fn, c, eventOptions) ==
  [target |-> target, type |-> type, fn |-> fn, scope |-> c,
   options |-> eventOptions]

\* target.addEventListener(type, listener, options): every effect run makes
\* new functions, so the entry is never already in the list
addEventListener(ls, l) == Append(ls, l)

RECURSIVE removeEventListener(_, _)
\* target.removeEventListener(type, listener, options): the first entry of the
\* same target, type, function and options goes, if there is one
removeEventListener(ls, l) ==
  IF ls = <<>> THEN <<>>
  ELSE IF Head(ls) = l THEN Tail(ls)
  ELSE <<Head(ls)>> \o removeEventListener(Tail(ls), l)

RECURSIVE addAll(_, _)
addAll(ls, added) ==
  IF added = <<>> THEN ls
  ELSE addAll(addEventListener(ls, Head(added)), Tail(added))

RECURSIVE removeAll(_, _)
removeAll(ls, removed) ==
  IF removed = <<>> THEN ls
  ELSE removeAll(removeEventListener(ls, Head(removed)), Tail(removed))

RECURSIVE dispatchEvent(_, _, _, _, _, _)
\* the event is dispatched at the element and bubbles to the window: every
\* attached listener of its type hears it, in the order of attachment
dispatchEvent(ls, st, keyboardEvent, ref, isMounted, dateNow) ==
  IF ls = <<>> THEN st
  ELSE LET l == Head(ls)
           heard ==
             IF l.type # keyboardEvent.type THEN st
             ELSE IF l.fn = "handlePrimaryEvent"
               THEN handlePrimaryEvent(l.scope, st, keyboardEvent, ref,
                                       isMounted, dateNow)
               ELSE handleKeyUpDeactivation(l.scope, st, keyboardEvent,
                                            isMounted)
       IN  dispatchEvent(Tail(ls), heard, keyboardEvent, ref, isMounted,
                         dateNow)

effectListeners_AttachesWhenDisabled(r) ==
  LET eventTarget == IF r.target # NullTarget THEN r.target ELSE defaultTarget
      c == Scope(r)
  IN  IF ~isListenerCapable(eventTarget) THEN <<>>
      ELSE <<Listener(eventTarget, r.eventType, "handlePrimaryEvent", c,
                      r.eventOptions)>>
           \o IF r.returnState /\ r.eventType = "keydown"
                THEN <<Listener(eventTarget, "keyup",
                                "handleKeyUpDeactivation", c, r.eventOptions)>>
                ELSE <<>>

\* the listeners one run of the effect attaches for the render r, which are
\* the ones the cleanup it returns removes
effectListeners(r) ==
  IF ~r.enabled THEN <<>>
  ELSE LET eventTarget == IF r.target # NullTarget THEN r.target
                          ELSE defaultTarget
           c == Scope(r)
       IN  IF ~isListenerCapable(eventTarget) THEN <<>>
           ELSE <<Listener(eventTarget, r.eventType, "handlePrimaryEvent", c,
                           r.eventOptions)>>
                \o IF r.returnState /\ r.eventType = "keydown"
                     THEN <<Listener(eventTarget, "keyup",
                                     "handleKeyUpDeactivation", c,
                                     r.eventOptions)>>
                     ELSE <<>>

\* the dependency list of the effect: does it run again after the render r
depsChanged(previous, r, fresh) ==
  \/ previous.enabled # r.enabled
  \/ previous.target # r.target
  \/ previous.eventType # r.eventType
  \/ previous.eventOptions # r.eventOptions
  \/ previous.requireControl # r.requireControl
  \/ previous.requireMeta # r.requireMeta
  \/ previous.requireShift # r.requireShift
  \/ previous.requireAlt # r.requireAlt
  \/ previous.returnState # r.returnState
  \/ memoRecomputed(previous.keys, r.keys, fresh)

NothingRendered ==
  [keys |-> [isArray |-> TRUE, value |-> <<>>], callback |-> "none",
   eventType |-> "keydown", target |-> NullTarget, eventOptions |-> FALSE,
   enabled |-> FALSE, requireControl |-> FALSE, requireMeta |-> FALSE,
   requireShift |-> FALSE, requireAlt |-> FALSE, returnState |-> FALSE]

\* no component uses the hook
NoHook ==
  /\ mounted = FALSE
  /\ rendered = NothingRendered
  /\ callbackRef = "none"
  /\ indicator = initialIndicator
  /\ listeners = <<>>
  /\ cleanup = <<>>
  /\ pressed = {}
  /\ renders = 0
  /\ invoked = <<>>

IdlePure == [op |-> "none"]

Init ==
  /\ \E r \in Registrations : patterns = r.patterns /\ options = r.options
  /\ normalized = normalizedOf(patterns)
  /\ sequenceTimeoutMs = sequenceTimeoutMsOf(patterns)
  /\ seq = seqOf(normalizedOf(patterns), options)
  /\ index = 0
  /\ timer = NoTimer
  /\ timers = {}
  /\ nextTimerId = 1
  /\ now = 0
  /\ subscribed = TRUE
  /\ calls = <<>>
  /\ log = <<>>
  /\ pin = IdlePure
  /\ pout = IdlePure
  /\ NoHook

\* the host dispatches a keyboard event to the attached handler
HandleEvent ==
  /\ subscribed
  /\ Len(log) < MaxLog
  /\ \E event \in Events :
       /\ Handler(event)
       /\ log' = Append(log, Entry("event", event))
  /\ UNCHANGED <<patterns, options, normalized, sequenceTimeoutMs, seq, now,
                 subscribed, pin, pout, hookVars>>

\* a due timeout runs its callback
TimerFires ==
  /\ Len(log) < MaxLog
  /\ \E t \in timers :
       /\ t.due <= now
       /\ timers' = timers \ {t}
       /\ TimerCallback
  /\ log' = Append(log, Entry("timeout", NoEvent))
  /\ UNCHANGED <<patterns, options, normalized, sequenceTimeoutMs, seq,
                 nextTimerId, now, subscribed, calls, pin, pout, hookVars>>

\* time passes
Elapse ==
  /\ Len(log) < MaxLog
  /\ now = lastTime
  /\ \E d \in Delays : now' = now + d
  /\ UNCHANGED <<patterns, options, normalized, sequenceTimeoutMs, seq, index,
                 timer, timers, nextTimerId, subscribed, calls, log, pin, pout,
                 hookVars>>

\* the host removes the listener (README: removeEventListener in the cleanup)
Teardown ==
  /\ subscribed
  /\ Len(log) < MaxLog
  /\ subscribed' = FALSE
  /\ log' = Append(log, Entry("teardown", NoEvent))
  /\ UNCHANGED <<patterns, options, normalized, sequenceTimeoutMs, seq, index,
                 timer, timers, nextTimerId, now, calls, pin, pout, hookVars>>

Next == HandleEvent \/ TimerFires \/ Elapse \/ Teardown

Spec == Init /\ [][Next]_vars

(***************************************************************************)
(* Pure calls: parsePattern, matchHotkey, matchAnyHotkey and              *)
(* formatPattern applied to drawn inputs                                   *)
(***************************************************************************)
PatControlKUpper == <<"C","o","n","t","r","o","l","+","K">>
PatControlSpacedK == <<"C","o","n","t","r","o","l"," ","+"," ","K">>
PatK == <<"k">>
PatKUpper == <<"K">>
PatControl == <<"C","o","n","t","r","o","l">>
PatControlShiftK == <<"C","o","n","t","r","o","l","+","S","h","i","f","t","+","k">>
PatAltK == <<"A","l","t","+","k">>
PatCmdK == <<"c","m","d","+","k">>
PatModK == <<"M","o","d","+","k">>
PatEsc == <<"e","s","c">>
PatShiftEscape == <<"S","h","i","f","t","+","E","S","C","A","P","E">>
PatEmpty == <<>>
PatPaddedK == <<" ","k"," ">>
PatWhitespace == <<" "," ">>
PatMod == <<"m","o","d">>
PatKPlusMod == <<"k","+","m","o","d">>
PatModUpperK == <<"M","O","D","+","k">>
PatControlModK == <<"C","o","n","t","r","o","l","+","M","o","d","+","k">>
PatCtrlUpperK == <<"C","T","R","L","+","k">>
PatCommandK == <<"C","o","m","m","a","n","d","+","k">>
PatMetaK == <<"m","e","t","a","+","k">>
PatOptionK == <<"O","P","T","I","O","N","+","k">>
PatMetaShiftP == <<"M","e","t","a","+","S","h","i","f","t","+","p">>
PatAB == <<"a","+","b">>
PatControlAB == <<"C","o","n","t","r","o","l","+","a","+","b">>
PatAControlB == <<"a","+","C","o","n","t","r","o","l","+","b">>
PatABControl == <<"a","+","b","+","C","o","n","t","r","o","l">>
PatABMod == <<"a","+","b","+","m","o","d">>
PatCtrlKCtrlC ==
  <<"C","o","n","t","r","o","l","+","k"," ","C","o","n","t","r","o","l","+","c">>
PatShiftControlK ==
  <<"S","h","i","f","t","+","C","o","n","t","r","o","l","+","k">>
PatAllModifiersK ==
  <<"C","o","n","t","r","o","l","+","M","e","t","a","+","S","h","i","f","t","+","A","l","t","+","k">>
PatAllModifiersReversedK ==
  <<"A","l","t","+","S","h","i","f","t","+","M","e","t","a","+","C","o","n","t","r","o","l","+","k">>
PatEscK == <<"e","s","c","+","k">>
PatSpace == <<"s","p","a","c","e">>
PatF1 == <<"f","1">>
PatMixedCase == <<"p","g","U","P">>
PatConstructor == <<"c","o","n","s","t","r","u","c","t","o","r">>
PatProto == <<"_","_","p","r","o","t","o","_","_">>

PurePatterns ==
  { PatControlK, PatControlKUpper, PatControlSpacedK, PatK, PatKUpper,
    PatControl, PatControlShiftK, PatAltK, PatCmdK, PatModK, PatEsc,
    PatShiftEscape, PatEmpty, PatPaddedK, PatGG, PatGXG,
    PatControlModK, PatABMod,
    PatCtrlKCtrlC, PatShiftControlK, PatAllModifiersK,
    PatAllModifiersReversedK,
    PatWhitespace, PatMod, PatKPlusMod, PatModUpperK, PatCtrlUpperK,
    PatCommandK, PatMetaK, PatOptionK, PatMetaShiftP, PatAB,
    PatControlAB, PatAControlB, PatABControl, PatEscK, PatSpace,
    PatF1, PatMixedCase, PatConstructor, PatProto }

PureKeys == { <<"k">>, <<"K">>, <<"g">>, <<"E","s","c","a","p","e">> }

PureEvents ==
  { KeyEvent(k, c, m, s, a) :
      k \in PureKeys, c \in BOOLEAN, m \in BOOLEAN, s \in BOOLEAN, a \in BOOLEAN }

PureOptions ==
  [platform : Platforms, caseSensitive : BOOLEAN,
   treatModAsPlatformMeta : BOOLEAN]

\* the `patterns` argument of matchAnyHotkey: a string or an array of strings
PureLists ==
  { [isArray |-> FALSE, value |-> PatControlK],
    [isArray |-> TRUE, value |-> <<>>],
    [isArray |-> TRUE, value |-> <<PatGG, PatGXG>>],
    [isArray |-> TRUE, value |-> <<PatControlK, PatK>>],
    [isArray |-> TRUE, value |-> <<PatK, PatKUpper, PatEmpty>>],
    [isArray |-> TRUE, value |-> <<PatGG, PatEsc, PatControlKUpper>>],
    [isArray |-> TRUE, value |-> <<PatConstructor, PatK>>] }

SeparatorsGiven == { <<>>, <<"-">> }

PureFormats ==
  { f \in [platform : Platforms, hasUseSymbols : BOOLEAN, useSymbols : BOOLEAN,
           hasSeparator : BOOLEAN, separator : SeparatorsGiven] :
      /\ ~f.hasUseSymbols => ~f.useSymbols
      /\ ~f.hasSeparator => f.separator = <<>> }

\* formatPattern(pattern) with no options, on each platform
DefaultFormat(platform) ==
  [platform |-> platform, hasUseSymbols |-> FALSE, useSymbols |-> FALSE,
   hasSeparator |-> FALSE, separator |-> <<>>]

DefaultOptions ==
  [platform |-> "linux", caseSensitive |-> FALSE, treatModAsPlatformMeta |-> TRUE]

\* The inputs explored: every pattern with every MatchOptions and event,
\* every pattern list with every event, every pattern with every
\* FormatOptions.
PureInputs ==
  [pattern : PurePatterns, opts : PureOptions, event : PureEvents,
   list : {[isArray |-> TRUE, value |-> <<>>]}, fmt : {DefaultFormat("linux")}]
  \cup
  [pattern : {PatK}, opts : {o \in PureOptions : o.platform = "linux"},
   event : PureEvents, list : PureLists, fmt : {DefaultFormat("linux")}]
  \cup
  [pattern : PurePatterns, opts : {DefaultOptions},
   event : {KeyEvent(<<"k">>, FALSE, FALSE, FALSE, FALSE)},
   list : {[isArray |-> TRUE, value |-> <<>>]}, fmt : PureFormats]

InitPure ==
  /\ patterns = CHOOSE p \in HotkeyPatterns : ~p.isObject /\ ~p.isArray
  /\ options = CHOOSE o \in HandlerOptions : ~o.caseSensitive
  /\ normalized = normalizedOf(patterns)
  /\ sequenceTimeoutMs = sequenceTimeoutMsOf(patterns)
  /\ seq = seqOf(normalizedOf(patterns), options)
  /\ index = 0
  /\ timer = NoTimer
  /\ timers = {}
  /\ nextTimerId = 1
  /\ now = 0
  /\ subscribed = TRUE
  /\ calls = <<>>
  /\ log = <<>>
  /\ pin \in PureInputs
  /\ pout = IdlePure
  /\ NoHook

\* a call that ends in a TypeError returns nothing
Thrown(fn) == [op |-> "TypeError", by |-> fn]

CallParsePattern ==
  /\ pout' = [op |-> "parsePattern", r |-> parsePattern(pin.pattern, pin.opts)]
  /\ UNCHANGED <<handlerVars, pin, hookVars>>

CallMatchHotkey ==
  /\ pout' = IF matchHotkeyThrows(pin.event, pin.pattern, pin.opts)
               THEN Thrown("matchHotkey")
               ELSE [op |-> "matchHotkey",
                     r |-> matchHotkey(pin.event, pin.pattern, pin.opts)]
  /\ UNCHANGED <<handlerVars, pin, hookVars>>

\* Array.isArray(patterns) ? patterns : [patterns]
patternList(l) == IF l.isArray THEN l.value ELSE <<l.value>>

CallMatchAnyHotkey ==
  /\ pout' = IF matchAnyHotkeyThrows(pin.event, patternList(pin.list), pin.opts)
               THEN Thrown("matchAnyHotkey")
               ELSE [op |-> "matchAnyHotkey",
                     r |-> matchAnyHotkey(pin.event, patternList(pin.list),
                                          pin.opts)]
  /\ UNCHANGED <<handlerVars, pin, hookVars>>

CallFormatPattern ==
  /\ pout' = IF formatPatternThrows(pin.pattern, pin.fmt)
               THEN Thrown("formatPattern")
               ELSE [op |-> "formatPattern",
                     r |-> formatPattern(pin.pattern, pin.fmt)]
  /\ UNCHANGED <<handlerVars, pin, hookVars>>

NextPure ==
  CallParsePattern \/ CallMatchHotkey \/ CallMatchAnyHotkey \/ CallFormatPattern

SpecPure == InitPure /\ [][NextPure]_vars

(***************************************************************************)
(* Reading the history                                                     *)
(***************************************************************************)
IsSeqHandler == seq # <<>>

\* the state step p of the log left behind
CallsAfter(p) == IF p = Len(log) THEN Len(calls) ELSE log[p + 1].n
IndexAfter(p) == IF p = Len(log) THEN index ELSE log[p + 1].idx
TimerAfter(p) == IF p = Len(log) THEN timer ELSE log[p + 1].tm
ArmedAfter(p) == IF p = Len(log) THEN timers ELSE log[p + 1].armed

\* how many times step p invoked the callback
InvokedIn(p) == CallsAfter(p) - log[p].n

\* positions of the log that are events, and the stream of events so far
EventPositions == {p \in DOMAIN log : log[p].kind = "event"}

EventStream ==
  LET evs == SelectSeq(log, LAMBDA e : e.kind = "event")
  IN  [i \in DOMAIN evs |-> evs[i].ev]

\* the positions of the events in the log, in order
RECURSIVE eventPositionsFrom(_)
eventPositionsFrom(p) ==
  IF p > Len(log) THEN <<>>
  ELSE IF log[p].kind = "event" THEN <<p>> \o eventPositionsFrom(p + 1)
  ELSE eventPositionsFrom(p + 1)

EventPositionSeq == eventPositionsFrom(1)

\* the pairs <<p, q>> where q is the event that follows event p in the stream
SuccessiveEvents ==
  LET eps == EventPositionSeq
  IN  {<<eps[j], eps[j + 1]>> : j \in 1..(Len(eps) - 1)}

\* the event matcher of the pattern language: exact modifiers, canonical key
Canonical(k) ==
  IF Len(k) = 1 /\ ~options.caseSensitive THEN toLowerCase(k) ELSE k

EventMatchesStep(event, step) ==
  /\ step.ctrl = event.ctrlKey
  /\ step.meta = event.metaKey
  /\ step.shift = event.shiftKey
  /\ step.alt = event.altKey
  /\ (step.key = Null \/ Canonical(event.key) = Canonical(step.key))

\* log entries p-Len(steps)+1 .. p are events matching the steps in order
CompletingRun(steps, p) ==
  /\ p >= Len(steps)
  /\ \A i \in DOMAIN steps :
       /\ log[p - Len(steps) + i].kind = "event"
       /\ EventMatchesStep(log[p - Len(steps) + i].ev, steps[i])

(***************************************************************************)
(* C1: for a sequence of N steps and a positive timeout, N events matching *)
(* the steps in order from stepIndex 0, none interrupted by the deadline   *)
(* firing, invoke the handler exactly once, on the N-th event and with     *)
(* that event, and leave stepIndex 0 with no timer armed.                  *)
(***************************************************************************)
C1_CompletesOnce ==
  (IsSeqHandler /\ sequenceTimeoutMs > 0) =>
    \A p \in DOMAIN log :
      (CompletingRun(seq, p) /\ log[p - Len(seq) + 1].idx = 0) =>
        /\ \A i \in 1..(Len(seq) - 1) : InvokedIn(p - Len(seq) + i) = 0
        /\ InvokedIn(p) = 1
        /\ calls[log[p].n + 1] = log[p].ev
        /\ IndexAfter(p) = 0
        /\ TimerAfter(p) = NoTimer
        /\ ArmedAfter(p) = {}

\* the sequence completed twice, with time passing between the events
C1_Witness ==
  /\ IsSeqHandler /\ sequenceTimeoutMs > 0
  /\ Len(calls) = 2
  /\ now > 0
  /\ log # <<>> /\ CompletingRun(seq, Len(log))
  /\ log[Len(log) - Len(seq) + 1].idx = 0
  /\ log[Len(log)].armed # {}

(***************************************************************************)
(* C2: an event that does not match the step at the current stepIndex, at  *)
(* any position, sets stepIndex to 0, cancels the armed timer and does not *)
(* invoke the handler; for "g g" the stream g, x, g never invokes it.      *)
(***************************************************************************)
C2_MismatchResets ==
  IsSeqHandler =>
    /\ \A p \in EventPositions :
         ~EventMatchesStep(log[p].ev, seq[log[p].idx + 1]) =>
           /\ IndexAfter(p) = 0
           /\ TimerAfter(p) = NoTimer
           /\ ArmedAfter(p) = {}
           /\ InvokedIn(p) = 0
    /\ (normalized = <<PatGG>> /\ EventStream = <<EvG, EvX, EvG>>) => calls = <<>>

\* g, x, g on "g g", the x arriving at stepIndex 1 with the timer armed
C2_Witness ==
  /\ normalized = <<PatGG>>
  /\ EventStream = <<EvG, EvX, EvG>>
  /\ Len(log) = 3
  /\ log[2].idx = 1 /\ log[2].armed # {}

(***************************************************************************)
(* C3: with a positive timeout, the deadline firing sets stepIndex to 0    *)
(* and the timer handle to null and never invokes the handler; an event    *)
(* arriving more than the timeout after the previous event is evaluated    *)
(* against step 0 and invokes nothing ("g g": g, long gap, g).             *)
(***************************************************************************)
C3_DeadlineResets ==
  (IsSeqHandler /\ sequenceTimeoutMs > 0) =>
    /\ \A p \in DOMAIN log :
         log[p].kind = "timeout" =>
           /\ IndexAfter(p) = 0
           /\ TimerAfter(p) = NoTimer
           /\ InvokedIn(p) = 0
    /\ \A pq \in SuccessiveEvents :
         (log[pq[2]].t - log[pq[1]].t > sequenceTimeoutMs) =>
           /\ log[pq[2]].idx = 0
           /\ InvokedIn(pq[2]) = 0

\* g, the deadline fires at stepIndex 1, then g again after the timeout
C3_Witness ==
  /\ normalized = <<PatGG>> /\ sequenceTimeoutMs > 0
  /\ Len(log) = 3
  /\ EventStream = <<EvG, EvG>>
  /\ log[2].kind = "timeout" /\ log[2].idx = 1
  /\ log[3].t - log[1].t > sequenceTimeoutMs
  /\ calls = <<>>

(***************************************************************************)
(* C4: a handler given a plain string or array holding a sequence          *)
(* (sequenceTimeoutMs 0) enforces no time limit: a stream of events that   *)
(* match the steps in order invokes the handler whatever time elapses      *)
(* between consecutive events.  (Stated for gaps of at least 1 ms.)        *)
(***************************************************************************)
C4_ZeroTimeoutIsUnbounded ==
  ( /\ IsSeqHandler /\ ~patterns.isObject
    /\ log # <<>> /\ log[Len(log)].kind = "event"
    /\ Len(EventStream) = Len(seq)
    /\ \A i \in DOMAIN seq : EventMatchesStep(EventStream[i], seq[i])
    /\ \A pq \in SuccessiveEvents : log[pq[2]].t - log[pq[1]].t >= 1 )
  => calls = <<EventStream[Len(seq)]>>

\* the runs of Len(seq) successive events of the stream, as log positions
SuccessiveRuns ==
  LET eps == EventPositionSeq
  IN  {[i \in DOMAIN seq |-> eps[j + i - 1]] : j \in 1..(Len(eps) - Len(seq) + 1)}

MatchesInOrder(ps) ==
  \A i \in DOMAIN seq : EventMatchesStep(log[ps[i]].ev, seq[i])

GapsBelowTimeout(ps) ==
  \A i \in 1..(Len(seq) - 1) :
    log[ps[i + 1]].t - log[ps[i]].t < sequenceTimeoutMs

(***************************************************************************)
(* C5: the deadline counts from the last matched step: every matched       *)
(* non-final step re-arms the timer for the full timeout, so N >= 3 events *)
(* matching the steps in order from stepIndex 0, each less than the        *)
(* timeout after the previous one, invoke the handler on the N-th event    *)
(* even when the whole run takes longer than the timeout.                  *)
(***************************************************************************)
C5_DeadlineFromLastStep ==
  (IsSeqHandler /\ sequenceTimeoutMs > 0) =>
    /\ \A p \in EventPositions :
         (IndexAfter(p) > 0) =>
           ArmedAfter(p) = {[id |-> TimerAfter(p), due |-> log[p].t + sequenceTimeoutMs]}
    /\ \A ps \in SuccessiveRuns :
         (MatchesInOrder(ps) /\ GapsBelowTimeout(ps) /\ log[ps[1]].idx = 0) =>
           InvokedIn(ps[Len(seq)]) = 1

\* three steps completed in more than the timeout, each gap below it
C5_Witness ==
  /\ IsSeqHandler /\ sequenceTimeoutMs > 0 /\ Len(seq) >= 3
  /\ Len(log) = Len(seq)
  /\ CompletingRun(seq, Len(log))
  /\ \A i \in 1..(Len(seq) - 1) : log[i + 1].t - log[i].t < sequenceTimeoutMs
  /\ log[Len(log)].t - log[1].t > sequenceTimeoutMs
  /\ Len(calls) = 1

(***************************************************************************)
(* C6: in every reachable state at most one deadline timer is armed, and   *)
(* an armed timer is the one whose handle the recognizer holds.            *)
(***************************************************************************)
C6_OneTimer ==
  /\ Cardinality(timers) <= 1
  /\ \A t \in timers : t.id = timer

\* a matched step re-armed the timer while the previous one was still armed
C6_Witness ==
  /\ IsSeqHandler
  /\ \E p \in EventPositions :
       /\ log[p].armed # {}
       /\ ArmedAfter(p) # {}
       /\ ArmedAfter(p) # log[p].armed

(***************************************************************************)
(* C7: when the registration is torn down while a deadline timer is armed, *)
(* the timer is cancelled: after teardown no timer of the recognizer is    *)
(* armed and the handler callback is not invoked.                          *)
(***************************************************************************)
C7_TeardownCancelsTimer ==
  \A p \in DOMAIN log :
    log[p].kind = "teardown" =>
      /\ ArmedAfter(p) = {}
      /\ Len(calls) = log[p].n

\* the part of C7 the code keeps: nothing invokes the callback after teardown
C7_NoCallAfterTeardown ==
  \A p \in DOMAIN log : log[p].kind = "teardown" => Len(calls) = log[p].n

\* the steps of the first pattern of the list that parses as a sequence
FirstSequenceOfList ==
  LET isSeq(i) == parsePattern(normalized[i], options).isSequence
      first == CHOOSE i \in DOMAIN normalized :
                 isSeq(i) /\ \A j \in 1..(i - 1) : ~isSeq(j)
  IN  parsePattern(normalized[first], options).sequence

(***************************************************************************)
(* C8: when the list holds a sequence pattern, only the first one in list  *)
(* order is tracked: the callback is invoked only by the event completing  *)
(* that sequence, never for an event matching a non-sequence pattern of    *)
(* the list nor for one completing a later sequence of the list.  (Stated   *)
(* on the step taken last: every step of a history is the last one in the  *)
(* state it leaves behind.)                                                *)
(***************************************************************************)
C8_OnlyFirstSequence ==
  (log # <<>> /\ InvokedIn(Len(log)) > 0
     /\ someSequence(normalized, options)) =>
    CompletingRun(FirstSequenceOfList, Len(log))

\* Control+k matched a simple pattern and x, x completed the later sequence,
\* and the callback was not invoked
C8_Witness ==
  /\ normalized = <<PatControlK, PatGG, PatXX>>
  /\ EventStream = <<EvCtrlK, EvX, EvX>>
  /\ matchAnyHotkey(EvCtrlK, normalized, options)
  /\ CompletingRun(parsePattern(PatXX, options).sequence, Len(log))
  /\ calls = <<>>

\* the condition for a match, on the parsed pattern and the event
C9_Expected ==
  LET parsed == parsePattern(pin.pattern, pin.opts)
      canon(k) == IF Len(k) = 1 /\ ~pin.opts.caseSensitive
                    THEN toLowerCase(k) ELSE k
  IN  /\ ~parsed.isSequence
      /\ pin.event.ctrlKey = parsed.ctrl
      /\ pin.event.metaKey = parsed.meta
      /\ pin.event.shiftKey = parsed.shift
      /\ pin.event.altKey = parsed.alt
      /\ (parsed.key = Null \/ canon(pin.event.key) = canon(parsed.key))

(***************************************************************************)
(* C9: matchHotkey(event, pattern, options) is true if and only if the     *)
(* parsed pattern is not a sequence, each of the four event modifier flags *)
(* equals the parsed modifier, and the parsed key is null or equals the    *)
(* event key, both lowercased when of one character and caseSensitive is   *)
(* false; for a sequence pattern it is false for every event.              *)
(***************************************************************************)
C9_MatchHotkeyIff ==
  pout.op = "matchHotkey" => (pout.r <=> C9_Expected)

\* "Control+K" matched a caps-lock "K" held with Control only
C9_Witness ==
  /\ pout.op = "matchHotkey" /\ pout.r = TRUE
  /\ pin.pattern = PatControlKUpper
  /\ ~pin.opts.caseSensitive
  /\ pin.event = KeyEvent(<<"K">>, TRUE, FALSE, FALSE, FALSE)

(***************************************************************************)
(* C10: "Control + K", written with spaces around the plus sign, is a      *)
(* single-step pattern: parsePattern gives isSequence false, control true  *)
(* and key "k", and matchHotkey is true for key "k" with only Control      *)
(* held.                                                                   *)
(***************************************************************************)
C10_SpacedPlusIsSingleStep ==
  (pin.pattern = PatControlSpacedK /\ ~pin.opts.caseSensitive) =>
    /\ pout.op = "parsePattern" =>
         /\ ~pout.r.isSequence
         /\ pout.r.ctrl
         /\ pout.r.key = <<"k">>
    /\ (pout.op = "matchHotkey"
          /\ pin.event = KeyEvent(<<"k">>, TRUE, FALSE, FALSE, FALSE)) =>
         pout.r = TRUE

\* what the code does with it: a sequence of three steps, which never matches
C10_ParsedAsThreeSteps ==
  pin.pattern = PatControlSpacedK =>
    /\ pout.op = "parsePattern" =>
         /\ pout.r.isSequence
         /\ Len(pout.r.sequence) = 3
    /\ pout.op = "matchHotkey" => pout.r = FALSE

\* how many parts a pattern has between its spaces that are not blank: counted
\* on the characters, at the first character of each such part
NonEmptyParts(s) ==
  Cardinality({ i \in DOMAIN s :
                  /\ s[i] # " "
                  /\ (i = 1 \/ s[i - 1] = " ")
                  /\ \E j \in i..Len(s) :
                       /\ s[j] \notin WhiteSpace
                       /\ \A m \in i..j : s[m] # " " })

(***************************************************************************)
(* C11: every value returned by parsePattern has this shape: when          *)
(* isSequence is false, sequence has exactly one element, whose key and    *)
(* four modifiers equal the top-level fields; when isSequence is true, the *)
(* top-level key is null, the four top-level modifiers are false and       *)
(* sequence has at least two elements.  isSequence is true exactly when    *)
(* the pattern has more than one non-empty space-separated part.           *)
(***************************************************************************)
C11_ParsedShape ==
  pout.op = "parsePattern" =>
    LET r == pout.r
    IN  /\ ~r.isSequence =>
             /\ Len(r.sequence) = 1
             /\ r.sequence[1] = [key |-> r.key, ctrl |-> r.ctrl, meta |-> r.meta,
                                 shift |-> r.shift, alt |-> r.alt]
        /\ r.isSequence =>
             /\ r.key = Null
             /\ ~r.ctrl /\ ~r.meta /\ ~r.shift /\ ~r.alt
             /\ Len(r.sequence) >= 2
        /\ r.isSequence <=> NonEmptyParts(pin.pattern) > 1

\* "g g" was parsed: a sequence of two steps, each the key g
C11_Witness ==
  /\ pout.op = "parsePattern"
  /\ pin.pattern = PatGG
  /\ pout.r.isSequence
  /\ Len(pout.r.sequence) = 2
  /\ \A i \in 1..2 : pout.r.sequence[i].key = <<"g">>

\* " k ", one part between blanks, was parsed as a single step
C11_WitnessSingle ==
  /\ pout.op = "parsePattern"
  /\ pin.pattern = PatPaddedK
  /\ ~pout.r.isSequence
  /\ pout.r.key = <<"k">>

\* a step with no modifier
NoModifiers(step) == ~step.ctrl /\ ~step.meta /\ ~step.shift /\ ~step.alt

(***************************************************************************)
(* C12: when treatModAsPlatformMeta is false a "mod" token is ignored: it  *)
(* sets no modifier and never becomes the key, so "mod" alone parses to    *)
(* key null and "k+mod" to key "k", both with all modifiers false.         *)
(***************************************************************************)
C12_ModIgnoredWhenDisabled ==
  (pout.op = "parsePattern" /\ ~pin.opts.treatModAsPlatformMeta) =>
    /\ pin.pattern = PatMod => (pout.r.key = Null /\ NoModifiers(pout.r))
    /\ pin.pattern = PatKPlusMod => (pout.r.key = <<"k">> /\ NoModifiers(pout.r))

\* what the code does with it: the token falls through to the key assignment
C12_ModBecomesKey ==
  (pout.op = "parsePattern" /\ ~pin.opts.treatModAsPlatformMeta
     /\ pin.pattern \in {PatMod, PatKPlusMod}) =>
    /\ pout.r.key = IF pin.opts.caseSensitive THEN <<"m","o","d">>
                                               ELSE <<"M","o","d">>
    /\ NoModifiers(pout.r)

\* the tokens of a one-step pattern, lowercased
LowerTokens(pattern) ==
  LET tokens == trimmedNonEmpty(split(pattern, "+"))
  IN  {toLowerCase(tokens[i]) : i \in DOMAIN tokens}

(***************************************************************************)
(* C13: with treatModAsPlatformMeta true, a "mod" token in any letter case *)
(* sets meta and leaves ctrl as it is on "mac", and sets ctrl and leaves   *)
(* meta as it is on "windows", "linux" and "unknown"; the other aliases    *)
(* map case-insensitively, control|ctrl to ctrl, command|cmd|meta to meta, *)
(* shift to shift, option|alt to alt, whatever the platform.               *)
(***************************************************************************)
C13_AliasMapping ==
  (pout.op = "parsePattern" /\ pin.opts.treatModAsPlatformMeta
     /\ ~pout.r.isSequence) =>
    LET has(names) == LowerTokens(pin.pattern) \cap names # {}
        mod == has({<<"m","o","d">>})
        mac == pin.opts.platform = "mac"
    IN  /\ pout.r.ctrl <=>
             \/ has({<<"c","o","n","t","r","o","l">>, <<"c","t","r","l">>})
             \/ (mod /\ ~mac)
        /\ pout.r.meta <=>
             \/ has({<<"c","o","m","m","a","n","d">>, <<"c","m","d">>,
                     <<"m","e","t","a">>})
             \/ (mod /\ mac)
        /\ pout.r.shift <=> has({<<"s","h","i","f","t">>})
        /\ pout.r.alt <=> has({<<"o","p","t","i","o","n">>, <<"a","l","t">>})

\* "MOD+k" was parsed on mac: meta set, ctrl left false
C13_Witness ==
  /\ pout.op = "parsePattern"
  /\ pin.pattern = PatModUpperK
  /\ pin.opts.treatModAsPlatformMeta
  /\ pin.opts.platform = "mac"
  /\ pout.r.meta /\ ~pout.r.ctrl

\* "Control+Mod+k" was parsed on an unknown platform: ctrl set, meta left false
C13_WitnessUnknown ==
  /\ pout.op = "parsePattern"
  /\ pin.pattern = PatControlModK
  /\ pin.opts.treatModAsPlatformMeta
  /\ pin.opts.platform = "unknown"
  /\ pout.r.ctrl /\ ~pout.r.meta

\* the event has no modifier held
NoModifierHeld(event) ==
  ~event.ctrlKey /\ ~event.metaKey /\ ~event.shiftKey /\ ~event.altKey

(***************************************************************************)
(* C14: parsing never fails, and an empty or whitespace-only pattern       *)
(* parses to a non-sequence pattern with key null and the four modifiers   *)
(* false; matchHotkey with such a pattern is true for every event with no  *)
(* modifier held, whatever its key, and false for every event with a       *)
(* modifier held.                                                          *)
(***************************************************************************)
C14_EmptyPattern ==
  pin.pattern \in {PatEmpty, PatWhitespace} =>
    /\ pout.op # "TypeError"
    /\ pout.op = "parsePattern" =>
         /\ ~pout.r.isSequence
         /\ pout.r.key = Null
         /\ NoModifiers(pout.r)
    /\ pout.op = "matchHotkey" => (pout.r <=> NoModifierHeld(pin.event))

\* the whitespace-only pattern matched the Escape key pressed alone
C14_Witness ==
  /\ pin.pattern = PatWhitespace
  /\ pout.op = "matchHotkey" /\ pout.r = TRUE
  /\ pin.event = KeyEvent(<<"E","s","c","a","p","e">>, FALSE, FALSE, FALSE, FALSE)

\* the empty pattern did not match g pressed with Shift
C14_WitnessHeld ==
  /\ pin.pattern = PatEmpty
  /\ pout.op = "matchHotkey" /\ pout.r = FALSE
  /\ pin.event = KeyEvent(<<"g">>, FALSE, FALSE, TRUE, FALSE)

\* one-step patterns with a single-character key: the character as written and
\* whether Control is asked for
SingleCharacterPatterns ==
  { [pattern |-> PatControlKUpper, written |-> <<"K">>, ctrl |-> TRUE],
    [pattern |-> PatControlK, written |-> <<"k">>, ctrl |-> TRUE],
    [pattern |-> PatKUpper, written |-> <<"K">>, ctrl |-> FALSE],
    [pattern |-> PatK, written |-> <<"k">>, ctrl |-> FALSE] }

(***************************************************************************)
(* C15: with caseSensitive true a single-character key keeps its case when *)
(* parsed ("Control+K" gives key "K") and matchHotkey matches only an      *)
(* event whose key is the identical character, so a lowercase "k" event    *)
(* does not match; with caseSensitive false the parsed key and a           *)
(* single-character event key are both lowercased, so "Control+K" matches  *)
(* the keys "k" and "K" alike, the modifiers being equal.                  *)
(***************************************************************************)
C15_CaseSensitivity ==
  \A c \in SingleCharacterPatterns :
    pin.pattern = c.pattern =>
      /\ pout.op = "parsePattern" =>
           pout.r.key = IF pin.opts.caseSensitive THEN c.written
                                                  ELSE toLowerCase(c.written)
      /\ (pout.op = "matchHotkey" /\ Len(pin.event.key) = 1) =>
           (pout.r <=>
              /\ pin.event.ctrlKey = c.ctrl
              /\ ~pin.event.metaKey /\ ~pin.event.shiftKey /\ ~pin.event.altKey
              /\ IF pin.opts.caseSensitive
                   THEN pin.event.key = c.written
                   ELSE toLowerCase(pin.event.key) = toLowerCase(c.written))

\* case-sensitive "Control+K" did not match a lowercase k held with Control
C15_Witness ==
  /\ pin.pattern = PatControlKUpper
  /\ pin.opts.caseSensitive
  /\ pout.op = "matchHotkey" /\ pout.r = FALSE
  /\ pin.event = KeyEvent(<<"k">>, TRUE, FALSE, FALSE, FALSE)

\* case-insensitive "Control+K" matched the same event
C15_WitnessInsensitive ==
  /\ pin.pattern = PatControlKUpper
  /\ ~pin.opts.caseSensitive
  /\ pout.op = "matchHotkey" /\ pout.r = TRUE
  /\ pin.event = KeyEvent(<<"k">>, TRUE, FALSE, FALSE, FALSE)

\* the patterns of the list that match the event, each tried on its own
MatchingPatterns(event) ==
  {i \in DOMAIN normalized : matchHotkey(event, normalized[i], options)}

(***************************************************************************)
(* C16: a handler built from a list in which no pattern parses as a        *)
(* sequence is stateless: for every event, whatever events preceded it, it *)
(* invokes the callback exactly once, with that event, if matchAnyHotkey   *)
(* of the event and the list is true, even when several patterns of the    *)
(* list match, and does not invoke it otherwise.  (Stated on the event      *)
(* handled last, after any history: every event of a stream is the last    *)
(* one in the state it leaves behind.)                                     *)
(***************************************************************************)
C16_SimpleHandlerStateless ==
  (~IsSeqHandler /\ log # <<>>) =>
    LET p == Len(log)
    IN  /\ index = 0 /\ timer = NoTimer /\ timers = {}
        /\ log[p].kind = "event" =>
             IF matchAnyHotkey(log[p].ev, normalized, options)
               THEN /\ InvokedIn(p) = 1
                    /\ calls[Len(calls)] = log[p].ev
               ELSE InvokedIn(p) = 0
        /\ log[p].kind # "event" => InvokedIn(p) = 0

\* x matched both "x" and "X" of the list, after an event that matched nothing
\* and one that matched "Control+k": one call for each matching event
C16_Witness ==
  /\ ~IsSeqHandler
  /\ EventStream = <<EvG, EvCtrlK, EvX>>
  /\ Cardinality(MatchingPatterns(EvX)) = 2
  /\ calls = <<EvCtrlK, EvX>>

\* the list the patterns argument stands for: a string is a list of one
ListGiven == IF pin.list.isArray THEN pin.list.value ELSE <<pin.list.value>>

C17_WitnessSequences ==
  /\ pout.op = "matchAnyHotkey" /\ pout.r = FALSE
  /\ pin.list = [isArray |-> TRUE, value |-> <<PatGG, PatGXG>>]
  /\ pin.event = KeyEvent(<<"g">>, FALSE, FALSE, FALSE, FALSE)

\* the single string "Control+k" was matched as a list of one
C17_WitnessString ==
  /\ pout.op = "matchAnyHotkey" /\ pout.r = TRUE
  /\ ~pin.list.isArray
  /\ pin.event = KeyEvent(<<"k">>, TRUE, FALSE, FALSE, FALSE)

\* the names of the modifier alias table
AliasNames ==
  { <<"c","o","n","t","r","o","l">>, <<"c","t","r","l">>,
    <<"c","o","m","m","a","n","d">>, <<"c","m","d">>, <<"m","e","t","a">>,
    <<"s","h","i","f","t">>, <<"o","p","t","i","o","n">>, <<"a","l","t">>,
    <<"m","o","d">> }

\* the tokens of a one-step pattern, and the positions of those that are not
\* modifier aliases
StepTokens(pattern) == trimmedNonEmpty(split(pattern, "+"))

KeyTokenPositions(pattern) ==
  {i \in DOMAIN StepTokens(pattern) :
     toLowerCase(StepTokens(pattern)[i]) \notin AliasNames}

LastKeyToken(pattern) ==
  CHOOSE i \in KeyTokenPositions(pattern) :
    \A j \in KeyTokenPositions(pattern) : j <= i

\* the step written again without the key tokens before the last one
RECURSIVE withoutEarlierKeys(_, _, _)
withoutEarlierKeys(tokens, i, last) ==
  IF i > Len(tokens) THEN <<>>
  ELSE IF i < last /\ toLowerCase(tokens[i]) \notin AliasNames
    THEN withoutEarlierKeys(tokens, i + 1, last)
  ELSE <<tokens[i]>> \o withoutEarlierKeys(tokens, i + 1, last)

LastKeyOnly(pattern) ==
  join(withoutEarlierKeys(StepTokens(pattern), 1, LastKeyToken(pattern)), <<"+">>)

C18_WitnessPlacement ==
  /\ pout.op = "parsePattern"
  /\ pin.pattern \in {PatControlAB, PatABControl}
  /\ pout.r = parsePattern(PatAControlB, pin.opts)

\* the canonical form of a key token: the value of the named-key table when
\* the table has the lowercased token, else the token lowercased (one
\* character) or with its first letter uppercased (several), or as written
\* when caseSensitive
CanonicalKey(token, caseSensitive) ==
  IF hasKey(specialKeyMap, toLowerCase(token))
    THEN lookup(specialKeyMap, toLowerCase(token))
  ELSE IF caseSensitive THEN token
  ELSE IF Len(token) = 1 THEN toLowerCase(token)
  ELSE <<charToUpper(token[1])>> \o SubSeq(token, 2, Len(token))

\* a one-step pattern was parsed whose key comes from a key token
KeyTokenParsed ==
  /\ pout.op = "parsePattern"
  /\ ~pout.r.isSequence
  /\ KeyTokenPositions(pin.pattern) # {}
  /\ (pin.opts.treatModAsPlatformMeta
        \/ <<"m","o","d">> \notin LowerTokens(pin.pattern))

(***************************************************************************)
(* C19: canonical form of a key token: a token found case-insensitively in *)
(* the named-key alias table yields the table value whatever caseSensitive *)
(* is ("esc" and "ESCAPE" give "Escape", "space" the space character);     *)
(* otherwise a single-character token is lowercased unless caseSensitive   *)
(* is true (then kept as written), and a multi-character token gets its    *)
(* first letter uppercased with the rest unchanged unless caseSensitive is *)
(* true (then kept as written).                                            *)
(***************************************************************************)
C19_KeyCanonicalization ==
  KeyTokenParsed =>
    pout.r.key = CanonicalKey(StepTokens(pin.pattern)[LastKeyToken(pin.pattern)],
                              pin.opts.caseSensitive)

\* what the code does: the same, except for the two tokens that name a
\* property the table inherits, whose key is that property's value
C19_CanonicalUnlessInherited ==
  KeyTokenParsed =>
    LET token == StepTokens(pin.pattern)[LastKeyToken(pin.pattern)]
    IN  pout.r.key = IF hasKey(inheritedProperties, toLowerCase(token))
                       THEN lookup(inheritedProperties, toLowerCase(token))
                       ELSE CanonicalKey(token, pin.opts.caseSensitive)

\* the cases of the claim that were parsed as it says
C19_NamedKeysParsed ==
  /\ pout.op = "parsePattern"
  /\ \/ pin.pattern = PatShiftEscape /\ pin.opts.caseSensitive
          /\ pout.r.key = <<"E","s","c","a","p","e">>
     \/ pin.pattern = PatSpace /\ pout.r.key = <<" ">>
     \/ pin.pattern = PatMixedCase /\ ~pin.opts.caseSensitive
          /\ pout.r.key = <<"P","g","U","P">>

\* the label of "Control+k" for the choices of glyphs and separator
ControlKLabel(symbols, separator) ==
  (IF symbols THEN <<GlyphControl>> ELSE <<"C","t","r","l">>)
    \o separator \o <<"K">>

(***************************************************************************)
(* C20: defaults of formatPattern: useSymbols defaults to true exactly     *)
(* when the platform is "mac", and separator defaults to the empty string  *)
(* when useSymbols is true and to " + " otherwise; so "Control+k" is       *)
(* formatted as "Ctrl + K" on every platform but mac and as the Control    *)
(* glyph followed by K on mac, and "Meta+Shift+p" as the Command glyph,    *)
(* the Shift glyph and P on mac.                                           *)
(***************************************************************************)
C20_FormatDefaults ==
  pout.op = "formatPattern" =>
    LET symbols == IF pin.fmt.hasUseSymbols THEN pin.fmt.useSymbols
                   ELSE pin.fmt.platform = "mac"
        separator == IF pin.fmt.hasSeparator THEN pin.fmt.separator
                     ELSE IF symbols THEN <<>> ELSE <<" ","+"," ">>
    IN  /\ pin.pattern = PatControlK =>
             pout.r = ControlKLabel(symbols, separator)
        /\ (pin.pattern = PatControlK /\ pin.fmt = DefaultFormat(pin.fmt.platform)) =>
             pout.r = IF pin.fmt.platform = "mac"
                        THEN <<GlyphControl, "K">>
                        ELSE <<"C","t","r","l"," ","+"," ","K">>
        /\ (pin.pattern = PatMetaShiftP /\ pin.fmt = DefaultFormat("mac")) =>
             pout.r = <<GlyphCommand, GlyphShift, "P">>

\* formatPattern("Meta+Shift+p") was called on mac with no option
C20_Witness ==
  /\ pout.op = "formatPattern"
  /\ pin.pattern = PatMetaShiftP
  /\ pin.fmt = DefaultFormat("mac")
  /\ pout.r = <<GlyphCommand, GlyphShift, "P">>

\* formatPattern("Control+k") was called with no option where the platform is
\* not known
C20_WitnessUnknown ==
  /\ pout.op = "formatPattern"
  /\ pin.pattern = PatControlK
  /\ pin.fmt = DefaultFormat("unknown")
  /\ pout.r = <<"C","t","r","l"," ","+"," ","K">>

\* glyphs asked for on linux, separator left to its default: no separator
C20_WitnessGlyphsAsked ==
  /\ pout.op = "formatPattern"
  /\ pin.pattern = PatControlK
  /\ pin.fmt.platform = "linux"
  /\ pin.fmt.hasUseSymbols /\ pin.fmt.useSymbols /\ ~pin.fmt.hasSeparator
  /\ pout.r = <<GlyphControl, "K">>

\* the parts of a pattern between its spaces
PatternParts(pattern) == trimmedNonEmpty(split(pattern, " "))

(***************************************************************************)
(* C21: for a sequence pattern formatPattern formats each step on its own  *)
(* with the rules of a single step, the separator being used inside a      *)
(* step, and joins the step labels with a single space when useSymbols is  *)
(* true and with " then " otherwise, whatever the separator option is; so  *)
(* "g g" in word style gives "G then G".                                   *)
(***************************************************************************)
C21_SequenceFormatting ==
  (pout.op = "formatPattern" /\ Len(PatternParts(pin.pattern)) > 1) =>
    LET parts == PatternParts(pin.pattern)
        symbols == IF pin.fmt.hasUseSymbols THEN pin.fmt.useSymbols
                   ELSE pin.fmt.platform = "mac"
    IN  /\ pout.r = join([i \in DOMAIN parts |-> formatPattern(parts[i], pin.fmt)],
                         IF symbols THEN <<" ">>
                         ELSE <<" ","t","h","e","n"," ">>)
        /\ (pin.pattern = PatGG /\ ~symbols) =>
             pout.r = <<"G"," ","t","h","e","n"," ","G">>

\* "Control+k Control+c" in word style with the separator "-": the separator
\* inside the steps, " then " between them
C21_Witness ==
  /\ pout.op = "formatPattern"
  /\ pin.pattern = PatCtrlKCtrlC
  /\ pin.fmt.hasSeparator /\ pin.fmt.separator = <<"-">>
  /\ pin.fmt.platform = "linux" /\ ~pin.fmt.hasUseSymbols
  /\ pout.r = <<"C","t","r","l","-","K"," ","t","h","e","n"," ",
                "C","t","r","l","-","C">>

\* "g g" with glyphs: the steps joined with one space
C21_WitnessGlyphs ==
  /\ pout.op = "formatPattern"
  /\ pin.pattern = PatGG
  /\ pin.fmt = DefaultFormat("mac")
  /\ pout.r = <<"G"," ","G">>

\* the label of one step as the claim orders it, from the set of its tokens
\* and its parsed key
OrderedLabel(pattern, fmt) ==
  LET has(names) == LowerTokens(pattern) \cap names # {}
      mod == has({<<"m","o","d">>})
      mac == fmt.platform = "mac"
      key == parsePattern(pattern, formatParseOptions(fmt)).key
  IN  join(
        (IF has({<<"c","o","n","t","r","o","l">>, <<"c","t","r","l">>})
              \/ (mod /\ ~mac)
           THEN <<ctrlLabel(fmt)>> ELSE <<>>)
        \o (IF has({<<"c","o","m","m","a","n","d">>, <<"c","m","d">>,
                    <<"m","e","t","a">>}) \/ (mod /\ mac)
              THEN <<metaLabel(fmt)>> ELSE <<>>)
        \o (IF has({<<"s","h","i","f","t">>}) THEN <<shiftLabel(fmt)>> ELSE <<>>)
        \o (IF has({<<"o","p","t","i","o","n">>, <<"a","l","t">>})
              THEN <<altLabel(fmt)>> ELSE <<>>)
        \o (IF key = Null THEN <<>> ELSE <<toKeyLabel(key, fmt)>>),
        separatorOf(fmt))

(***************************************************************************)
(* C22: the label of a formatted step lists its parts in the fixed order   *)
(* ctrl, meta, shift, alt, key, leaving out the modifiers that are false   *)
(* and a null key, whatever the order of the tokens in the pattern: two    *)
(* single-step patterns that differ only by a permutation of their         *)
(* modifier tokens format to the same string.                              *)
(***************************************************************************)
C22_FixedLabelOrder ==
  (pout.op = "formatPattern" /\ Len(PatternParts(pin.pattern)) <= 1) =>
    /\ pout.r = OrderedLabel(pin.pattern, pin.fmt)
    /\ pin.pattern = PatShiftControlK =>
         pout.r = formatPattern(PatControlShiftK, pin.fmt)
    /\ pin.pattern = PatAllModifiersReversedK =>
         pout.r = formatPattern(PatAllModifiersK, pin.fmt)

\* "Alt+Shift+Meta+Control+k" in word style on linux
C22_Witness ==
  /\ pout.op = "formatPattern"
  /\ pin.pattern = PatAllModifiersReversedK
  /\ pin.fmt = DefaultFormat("linux")
  /\ pout.r = <<"C","t","r","l"," ","+"," ","M","e","t","a"," ","+"," ",
                "S","h","i","f","t"," ","+"," ","A","l","t"," ","+"," ","K">>

\* a pattern of modifiers only: the null key is left out
C22_WitnessNoKey ==
  /\ pout.op = "formatPattern"
  /\ pin.pattern = PatControl
  /\ pin.fmt = DefaultFormat("windows")
  /\ pout.r = <<"C","t","r","l">>

\* the tracked sequence as it is written: one single-step pattern for each step
TrackedSteps == PatternParts(firstSeq(normalized, options))

\* the handler took the event of log entry p as matching the current step: it
\* advanced, or completed the sequence
TreatedAsMatch(p) == IndexAfter(p) = log[p].idx + 1 \/ InvokedIn(p) > 0

(***************************************************************************)
(* C28: the step test of the sequence handler is the relation of the       *)
(* single-shot matcher: for every event and every step of the tracked      *)
(* sequence, with the same caseSensitive option, the handler treats the    *)
(* event as matching the step if and only if matchHotkey returns true for  *)
(* the event and a single-step pattern that parses to that step.  (Stated   *)
(* on the event handled last, before time passes: every event of a stream  *)
(* is the last one in the state it leaves behind.)                         *)
(***************************************************************************)
C28_StepTestIsMatchHotkey ==
  (IsSeqHandler /\ log # <<>> /\ log[Len(log)].kind = "event"
     /\ now = lastTime) =>
    LET p == Len(log)
        step == TrackedSteps[log[p].idx + 1]
    IN  /\ parsePattern(step, options).sequence = <<seq[log[p].idx + 1]>>
        /\ TreatedAsMatch(p) <=> matchHotkey(log[p].ev, step, options)

\* in "g Control+k": g was taken for the first step, then a second g was
\* refused for the second step, as matchHotkey refuses it for "Control+k"
C28_Witness ==
  /\ normalized = <<PatGCtrlK>>
  /\ EventStream = <<EvG, EvG>>
  /\ Len(log) = 2
  /\ TreatedAsMatch(2) = FALSE /\ log[2].idx = 1
  /\ matchHotkey(EvG, <<"g">>, options)
  /\ ~matchHotkey(EvG, PatControlK, options)

\* in "g Control+k": k held with Control was taken for the second step
C28_WitnessModifier ==
  /\ normalized = <<PatGCtrlK>>
  /\ EventStream = <<EvG, EvCtrlK>>
  /\ Len(log) = 2
  /\ TreatedAsMatch(2)
  /\ matchHotkey(EvCtrlK, PatControlK, options)

\* case-sensitive "g g": a capital G was refused for the first step
C28_WitnessCase ==
  /\ normalized = <<PatGG>> /\ options.caseSensitive
  /\ EventStream = <<EvCapsG>>
  /\ ~TreatedAsMatch(Len(log))

\* the log holds events only: no deadline expired and the listener stayed
OnlyEvents == \A p \in DOMAIN log : log[p].kind = "event"

(***************************************************************************)
(* C29: an event that fails the current step is consumed and is not        *)
(* evaluated again against step 0, the recognizer keeping no state beyond  *)
(* the current index: for a sequence "a b" of two different steps (here a  *)
(* is g and b is Control+k) the stream a, a, b never invokes the handler,  *)
(* the second a resetting the index to 0 instead of counting as a new      *)
(* first step, and the stream a, a, a, b invokes it exactly once.          *)
(***************************************************************************)
C29_FailedEventIsConsumed ==
  /\ \A p \in DOMAIN log :
       (/\ IsSeqHandler
        /\ log[p].kind = "event"
        /\ log[p].idx > 0
        /\ ~stepMatches(seq[log[p].idx + 1], log[p].ev, options)) =>
         /\ IndexAfter(p) = 0
         /\ InvokedIn(p) = 0
  /\ (normalized = <<PatGCtrlK>> /\ OnlyEvents) =>
       /\ (Len(log) >= 3 /\ SubSeq(EventStream, 1, 3) = <<EvG, EvG, EvCtrlK>>) =>
            CallsAfter(3) = 0
       /\ EventStream = <<EvG, EvG, EvG, EvCtrlK>> => calls = <<EvCtrlK>>

\* a, a, a, b was dispatched to the handler of "a b": one call, on the b
C29_Witness ==
  /\ normalized = <<PatGCtrlK>>
  /\ OnlyEvents
  /\ EventStream = <<EvG, EvG, EvG, EvCtrlK>>
  /\ log[2].idx = 1 /\ log[3].idx = 0
  /\ calls = <<EvCtrlK>>

\* a, a, b was dispatched: the second a matched step 0 but was spent on the
\* reset, and no call was made
C29_WitnessNoCall ==
  /\ normalized = <<PatGCtrlK>>
  /\ OnlyEvents
  /\ EventStream = <<EvG, EvG, EvCtrlK>>
  /\ stepMatches(seq[1], EvG, options)
  /\ log[3].idx = 0
  /\ calls = <<>>

(***************************************************************************)
(* C30: invariant of the sequence handler between any two steps (an event  *)
(* processed or the timer fired), for a positive timeout: 0 <= index < N,  *)
(* and a deadline is armed if and only if index > 0: index = 0 implies     *)
(* that the timer handle is null, index > 0 that exactly one timeout is    *)
(* armed, the one the handle names, whose firing resets the index.         *)
(***************************************************************************)
C30_IndexAndTimer ==
  (IsSeqHandler /\ sequenceTimeoutMs > 0) =>
    /\ 0 <= index /\ index < Len(seq)
    /\ index = 0 => (timer = NoTimer /\ timers = {})
    /\ index > 0 =>
         /\ timer # NoTimer
         /\ Cardinality(timers) = 1
         /\ \A t \in timers : t.id = timer

\* in "g x g" the index reached 2 with one deadline armed, then the deadline
\* fired and left index 0 and no timer
C30_Witness ==
  /\ normalized = <<PatGXG>> /\ sequenceTimeoutMs > 0
  /\ Len(log) = 3
  /\ log[3].kind = "timeout"
  /\ log[3].idx = 2 /\ Cardinality(log[3].armed) = 1
  /\ index = 0 /\ timer = NoTimer /\ timers = {}

(***************************************************************************)
(* The hook's life: mount, re-renders, unmount, and the keyboard events    *)
(* of the page                                                             *)
(***************************************************************************)
MaxRenders == 2

MaxEvents == 3

\* useHotkeys("z", ...) and useHotkeys(["z", "y"], ...)
KeyZ == [isArray |-> FALSE, value |-> "z"]

KeysZY == [isArray |-> TRUE, value |-> <<"z", "y">>]

KeysGiven == {KeyZ, KeysZY}

Callbacks == {"first", "second"}

EventTypes == {"keydown", "keyup", "keypress"}

\* the arguments of a render: keys, callback, and the options with their
\* defaults filled in
Arguments(keys, callback, given) ==
  given @@
  [keys |-> keys, callback |-> callback, eventType |-> "keydown",
   target |-> NullTarget, eventOptions |-> FALSE, enabled |-> TRUE,
   requireControl |-> FALSE, requireMeta |-> FALSE, requireShift |-> FALSE,
   requireAlt |-> FALSE, returnState |-> FALSE]

\* the first is the first call of the usage example, the second has the
\* options of its second call
FirstRenders ==
  {Arguments(KeysZY, "first", [requireMeta |-> TRUE]),
   Arguments(KeyZ, "first", [returnState |-> TRUE]),
   Arguments(KeysZY, "first", [returnState |-> TRUE]),
   Arguments(KeysZY, "first",
             [returnState |-> TRUE, requireShift |-> TRUE,
              eventType |-> "keyup", target |-> "element"]),
   Arguments(KeyZ, "first",
             [returnState |-> TRUE, requireControl |-> TRUE,
              requireMeta |-> TRUE, requireShift |-> TRUE,
              requireAlt |-> TRUE, eventOptions |-> TRUE]),
   Arguments(KeyZ, "first",
             [enabled |-> FALSE, requireAlt |-> TRUE, requireControl |-> TRUE,
              eventType |-> "keypress"])}

\* a re-render may pass the other keys, callback, target or enabled, and
\* switch between "keydown" and "keyup"
HookArguments ==
  UNION {{[r EXCEPT !.keys = k, !.callback = f, !.eventType = t,
                    !.target = g, !.enabled = e] :
            k \in KeysGiven, f \in Callbacks,
            t \in {r.eventType, "keydown", "keyup"},
            g \in {NullTarget, "element"}, e \in BOOLEAN} :
         r \in FirstRenders}

ArgumentNames == {"keys", "callback", "eventType", "target", "enabled"}

\* what the next render may pass: the options that are not listed keep their
\* value, and at most one of the listed arguments differs from the previous
\* render
Rerenders(previous) ==
  {r \in HookArguments :
     /\ \A a \in DOMAIN r \ ArgumentNames : r[a] = previous[a]
     /\ Cardinality({a \in ArgumentNames : r[a] # previous[a]}) <= 1}

\* the modifiers an event holds: ctrlKey, metaKey, shiftKey, altKey
ModifierSets ==
  {<<FALSE, FALSE, FALSE, FALSE>>, <<FALSE, TRUE, FALSE, FALSE>>,
   <<TRUE, TRUE, TRUE, TRUE>>}

HookEvents ==
  {[type |-> t, key |-> k, ctrlKey |-> m[1], metaKey |-> m[2],
    shiftKey |-> m[3], altKey |-> m[4]] :
     t \in EventTypes, k \in {"z", "y", "Z"}, m \in ModifierSets}

InitHook ==
  /\ patterns = CHOOSE p \in HotkeyPatterns : ~p.isObject /\ ~p.isArray
  /\ options = CHOOSE o \in HandlerOptions : ~o.caseSensitive
  /\ normalized = normalizedOf(patterns)
  /\ sequenceTimeoutMs = sequenceTimeoutMsOf(patterns)
  /\ seq = seqOf(normalizedOf(patterns), options)
  /\ index = 0
  /\ timer = NoTimer
  /\ timers = {}
  /\ nextTimerId = 1
  /\ now = 0
  /\ subscribed = TRUE
  /\ calls = <<>>
  /\ log = <<>>
  /\ pin = IdlePure
  /\ pout = IdlePure
  /\ NoHook

\* the first render of a component that calls the hook, and its effects
Mount ==
  /\ ~mounted
  /\ renders < MaxRenders
  /\ \E r \in FirstRenders :
       /\ rendered' = r
       /\ callbackRef' = callbackRefAfter(r.callback, r.callback)
       /\ listeners' = addAll(listeners, effectListeners(r))
       /\ cleanup' = effectListeners(r)
  /\ mounted' = TRUE
  /\ indicator' = initialIndicator
  /\ pressed' = {}
  /\ invoked' = <<>>
  /\ renders' = renders + 1
  /\ UNCHANGED <<handlerVars, pin, pout>>

\* a later render: the effects whose dependencies changed are cleaned up and
\* run again
Rerender ==
  /\ mounted
  /\ renders < MaxRenders
  /\ \E r \in Rerenders(rendered), fresh \in BOOLEAN :
       /\ rendered' = r
       /\ callbackRef' = callbackRefAfter(callbackRef, r.callback)
       /\ IF depsChanged(rendered, r, fresh)
            THEN /\ listeners' = addAll(removeAll(listeners, cleanup),
                                        effectListeners(r))
                 /\ cleanup' = effectListeners(r)
            ELSE UNCHANGED <<listeners, cleanup>>
  /\ renders' = renders + 1
  /\ UNCHANGED <<mounted, indicator, pressed, invoked, handlerVars, pin, pout>>

\* the component goes away: the cleanup of the last effect run is called, and
\* the state of the component is dropped
Unmount ==
  /\ mounted
  /\ mounted' = FALSE
  /\ listeners' = removeAll(listeners, cleanup)
  /\ cleanup' = <<>>
  /\ rendered' = NothingRendered
  /\ indicator' = initialIndicator
  /\ pressed' = {}
  /\ invoked' = <<>>
  /\ UNCHANGED <<callbackRef, renders, handlerVars, pin, pout>>

\* a key goes down or up on the page, one millisecond after the last event
DispatchEvent(keyboardEvent) ==
  /\ now < MaxEvents
  /\ now' = now + 1
  /\ LET after == dispatchEvent(listeners,
                                [indicator |-> indicator, invoked |-> invoked],
                                keyboardEvent, callbackRef, mounted, now + 1)
     IN  /\ indicator' = after.indicator
         /\ invoked' = after.invoked
         /\ pressed' =
              IF keyboardEvent.type = "keydown"
                   /\ Len(after.invoked) > Len(invoked)
                THEN pressed \cup {keyboardEvent.key}
              ELSE IF keyboardEvent.type = "keyup"
                THEN pressed \ {keyboardEvent.key}
              ELSE pressed
  /\ UNCHANGED <<mounted, rendered, callbackRef, listeners, cleanup, renders>>
  /\ UNCHANGED <<patterns, options, normalized, sequenceTimeoutMs, seq, index,
                 timer, timers, nextTimerId, subscribed, calls, log, pin, pout>>

Dispatch == \E keyboardEvent \in HookEvents : DispatchEvent(keyboardEvent)

NextHook == Mount \/ Rerender \/ Unmount \/ Dispatch

SpecHook == InitHook /\ [][NextHook]_vars

(***************************************************************************)
(* Claims about the hook                                                   *)
(***************************************************************************)
\* every modifier the options of the render r require is held on the event
RequiredHeld(r, e) ==
  /\ r.requireControl => e.ctrlKey
  /\ r.requireMeta => e.metaKey
  /\ r.requireShift => e.shiftKey
  /\ r.requireAlt => e.altKey

\* event.key is one of the keys the render r registered
Registered(r, e) ==
  IF r.keys.isArray
    THEN \E i \in DOMAIN r.keys.value : r.keys.value[i] = e.key
    ELSE r.keys.value = e.key

ShouldInvoke(e) ==
  /\ mounted
  /\ rendered.enabled
  /\ e.type = rendered.eventType
  /\ Registered(rendered, e)
  /\ RequiredHeld(rendered, e)

(***************************************************************************)
(* C23: whenever a keyboard event is dispatched, the callback is invoked   *)
(* (once, with that event) if and only if the hook is mounted and enabled, *)
(* the event is of the configured eventType, event.key is exactly one of   *)
(* the registered keys and every required modifier is held on the event,   *)
(* whatever the other modifiers are; the function invoked is the callback  *)
(* of the latest committed render.                                         *)
(***************************************************************************)
C23_CallbackIffMatch ==
  [][\A e \in HookEvents :
       \/ IF ShouldInvoke(e)
            THEN invoked' = Append(invoked,
                                   Invocation(rendered.callback, e, now'))
            ELSE invoked' = invoked
       \/ ~DispatchEvent(e)]_vars

\* after a re-render that only changed the callback, an event holding the
\* required Meta and the other modifiers too reached the new callback
C23_Witness ==
  /\ mounted
  /\ renders = 2
  /\ rendered.callback = "second"
  /\ rendered.requireMeta /\ ~rendered.requireShift
  /\ Len(invoked) = 1
  /\ invoked[1].callback = "second"
  /\ invoked[1].event.metaKey /\ invoked[1].event.shiftKey

\* a mounted and enabled hook heard three events and invoked nothing
C23_WitnessRefused ==
  /\ mounted
  /\ rendered.enabled
  /\ renders = 1
  /\ now = 3
  /\ invoked = <<>>

PrimaryListeners ==
  {i \in DOMAIN listeners : listeners[i].fn = "handlePrimaryEvent"}

KeyUpListeners ==
  {i \in DOMAIN listeners : listeners[i].fn = "handleKeyUpDeactivation"}

ListenersInOrder ==
  /\ Cardinality(PrimaryListeners) <= 1
  /\ Cardinality(KeyUpListeners) <= 1
  /\ (~mounted \/ ~rendered.enabled) => listeners = <<>>
  /\ (mounted /\ rendered.enabled) => PrimaryListeners # {}
  /\ \A i \in DOMAIN listeners :
       /\ listeners[i].target = IF rendered.target = NullTarget
                                  THEN "window" ELSE rendered.target
       /\ listeners[i].options = rendered.eventOptions
       /\ i \in PrimaryListeners => listeners[i].type = rendered.eventType
       /\ i \in KeyUpListeners => listeners[i].type = "keyup"
  /\ cleanup = listeners

(***************************************************************************)
(* C24: after every mount, re-render and unmount, at most one primary      *)
(* listener and at most one keyup listener are attached, they are on the   *)
(* target of the latest render with its eventType and eventOptions, the    *)
(* pending cleanup removes exactly the attached listeners (same target,    *)
(* type, function and options), none is attached while enabled is false or *)
(* after unmount, and an event dispatched while the hook is disabled or    *)
(* unmounted invokes nothing.                                              *)
(***************************************************************************)
C24_ListenerLifecycle ==
  [][/\ ListenersInOrder'
     /\ (now' # now /\ (~mounted \/ ~rendered.enabled)) =>
          invoked' = invoked]_vars

\* a re-render moved the two listeners of a hook with returnState from the
\* window to the element
C24_Witness ==
  /\ mounted
  /\ renders = 2
  /\ rendered.returnState
  /\ rendered.eventType = "keydown"
  /\ rendered.target = "element"
  /\ Len(listeners) = 2
  /\ \A i \in DOMAIN listeners : listeners[i].target = "element"

\* the component was unmounted, events were dispatched, nothing is attached
C24_WitnessUnmounted ==
  /\ ~mounted
  /\ renders = 2
  /\ now = 3
  /\ listeners = <<>>

(***************************************************************************)
(* C25: with returnState true and eventType "keydown", in every state      *)
(* reached from the mount by key-down and key-up events, isActive is true  *)
(* exactly when at least one registered key whose keydown triggered the    *)
(* hotkey has not been released.                                           *)
(***************************************************************************)
C25_IsActiveWhileHeld ==
  (/\ mounted
   /\ renders = 1
   /\ rendered.returnState
   /\ rendered.enabled
   /\ rendered.eventType = "keydown") =>
    (indicator.isActive <=> pressed # {})

(***************************************************************************)
(* C26: with returnState true, pressCount equals the number of callback    *)
(* invocations since mount, it never decreases, and a step that invokes    *)
(* nothing (a keyup deactivation among them) changes neither pressCount    *)
(* nor lastTriggeredAt.                                                    *)
(***************************************************************************)
C26_PressCount ==
  [][/\ (mounted' /\ rendered'.returnState) =>
          indicator'.pressCount = Len(invoked')
     /\ (mounted /\ mounted' /\ rendered.returnState) =>
          /\ indicator'.pressCount >= indicator.pressCount
          /\ invoked' = invoked =>
               /\ indicator'.pressCount = indicator.pressCount
               /\ indicator'.lastTriggeredAt = indicator.lastTriggeredAt]_vars

\* two triggers, then the keyup of the key: the count and the time of the
\* last trigger stayed
C26_Witness ==
  /\ mounted
  /\ rendered.returnState
  /\ rendered.eventType = "keydown"
  /\ now = 3
  /\ Len(invoked) = 2
  /\ indicator.pressCount = 2
  /\ indicator.lastTriggeredAt = 2
  /\ indicator.lastEventType = "keyup"
  /\ ~indicator.isActive

(***************************************************************************)
(* C27: with returnState true, after a triggering event isCombinationActive*)
(* is true exactly when all the required modifiers are pressed on that     *)
(* event, also when no modifier is required and none is held; and after    *)
(* the keyup of a registered key (eventType "keydown") it is false.        *)
(***************************************************************************)
C27_CombinationActive ==
  [][\A e \in HookEvents :
       (DispatchEvent(e) /\ mounted /\ rendered.returnState) =>
         /\ invoked' # invoked =>
              (indicator'.isCombinationActive <=> RequiredHeld(rendered, e))
         /\ (/\ e.type = "keyup"
             /\ rendered.eventType = "keydown"
             /\ rendered.enabled
             /\ Registered(rendered, e)) =>
              ~indicator'.isCombinationActive]_vars

====
